---- MODULE Spec2Model ----
(***************************************************************************)
(* Model of the EDK2 variable store of uefi-firmware-manager:              *)
(*   varstore/edk2.go   locate (findNvData), validate (parseVolume,        *)
(*                      parseVarstore), walk (GetVarList), serialize       *)
(*                      (bytesVar, bytesVarList, bytesVarStore,            *)
(*                      WriteVarStore)                                     *)
(*   efi/efivarlist.go  EfiVar, ParseTime, BytesTime                       *)
(*   manager/edk2_manager.go  NewEDK2Manager, SetVariable, DeleteVariable, *)
(*                      SaveChanges                                        *)
(*                                                                         *)
(* Bytes are the integers 0..255, buffers are sequences of bytes and every *)
(* offset is 0-based as in the Go code.  Go's int is taken to be 64 bits   *)
(* wide; the uint32 arithmetic of GetVarList line 49 is done modulo 2^32   *)
(* on 16-bit limbs.                                                        *)
(***************************************************************************)
EXTENDS Integers, Sequences, FiniteSets, TLC

VARIABLES
    img,      \* index of the image file the store is constructed from
    data,     \* Edk2VarStore.data, the loaded image buffer
    cap,      \* cap(vs.data): os.ReadFile may leave spare capacity
    offset,   \* findNvData: the scan offset
    steps,    \* findNvData: number of loop iterations taken so far
    start,    \* Edk2VarStore.start
    end,      \* Edk2VarStore.end
    perr,     \* result of parseVolume (ignored by NewEdk2VarStore)
    varlist,  \* EDK2Manager.varList: name -> EfiVar
    file,     \* content written to the firmware file by WriteVarStore
    res,      \* what the last call returned to its caller
    nops,     \* number of manager calls made after construction
    pc,       \* position of the program
    now,      \* the wall clock (time.Now().UTC()) at the last setter call
    op,       \* the last call made on the variable collection
    ret,      \* the value that call returned
    heap,     \* SimpleFirmwareManager: the maps (EfiVarList) by reference
    cached,   \* varstoreCache.vs != nil && varstoreCache.varList != nil
    stores,   \* number of times varstoreCache.vs and varList were assigned
    lock,     \* varstoreCache.RWMutex: its readers and its writer
    calls,    \* the GetFirmwareReader calls in progress, one per goroutine
    frpos,    \* optimizedFirmwareReader.pos (fr.pos)
    got,      \* the bytes the Reads returned since the position was last set
    rd,       \* the last call on the base reader and what it returned
    currentMAC, \* JsonEDK2Manager.currentMAC, <<>> for nil
    variables,  \* JsonEDK2Manager.variables: nil, or the map name -> EfiVar
    modified,   \* JsonEDK2Manager.modified
    disk,       \* the fw-vars.json files under dataDir, by directory name
    jret,       \* the last call on the JSON manager and what it returned
    arch        \* a file name or URL and what the archive functions said of it

efivars == <<now, op, ret>>

simvars == <<heap, cached, stores, lock, calls>>

rdvars == <<frpos, got, rd>>

jsonvars == <<currentMAC, variables, modified, disk, jret>>

archvars == <<arch>>

othervars == <<rdvars, jsonvars, archvars>>

vars == <<img, data, cap, offset, steps, start, end, perr, varlist, file, res, nops, pc,
          now, op, ret, heap, cached, stores, lock, calls, frpos, got, rd,
          currentMAC, variables, modified, disk, jret, arch>>

----------------------------------------------------------------------------
(* Bounds of the model *)

\* iterations of the findNvData loop that are followed
MaxSteps == 3
\* manager calls (SetVariable, DeleteVariable, SaveChanges) after construction
MaxOps == 3
\* spare capacity of the image buffer beyond its length
MaxSlack == 1
\* calls made on a loaded variable collection
MaxCalls == 2
\* concurrent GetFirmwareReader calls
NumCalls == 3
\* every position >= Far lies beyond every buffer; positions saturate there
Far == 1073741824
\* the largest int64 of the base reader, scaled to the model: its positions and
\* offsets range over -(MaxInt64 + 1)..MaxInt64 and sums wrap around
MaxInt64 == 127

----------------------------------------------------------------------------
(* Byte primitives *)

Min(a, b) == IF a < b THEN a ELSE b

\* buf[i] for a 0-based index
At(buf, i) == buf[i + 1]

\* buf[lo:hi] for 0-based bounds
Slice(buf, lo, hi) == SubSeq(buf, lo + 1, hi)

Fill(n, b) == [i \in 1..n |-> b]

\* binary.Write of little-endian integers
LE16(n) == <<n % 256, (n \div 256) % 256>>

LE32(n) == <<n % 256, (n \div 256) % 256, (n \div 65536) % 256, (n \div 16777216) % 256>>

LE64(n) == LE32(n) \o <<0, 0, 0, 0>>

\* binary.LittleEndian.Uint16(buf[off:])
Uint16(buf, off) == At(buf, off) + 256 * At(buf, off + 1)

\* binary.LittleEndian.Uint32(buf[off:]) as two 16-bit limbs <<low, high>>
Uint32(buf, off) == <<Uint16(buf, off), Uint16(buf, off + 2)>>

\* a uint32 small enough to be added to a position without reaching Far
IsSmall(u) == u[2] < 4096

ToInt(u) == u[2] * 65536 + u[1]

\* uint32 addition, modulo 2^32
Add32(a, b) ==
    LET lo == a[1] + b[1]
        hi == a[2] + b[2] + (lo \div 65536)
    IN  <<lo % 65536, hi % 65536>>

FromInt(n) == <<n % 65536, (n \div 65536) % 65536>>

\* int(tlen) of a little-endian uint64: exact inside (-Far, Far), saturated outside
Int64(buf, off) ==
    LET b(i) == At(buf, off + i)
        low3 == b(0) + 256 * b(1) + 65536 * b(2)
    IN  IF b(7) >= 128
        THEN IF b(4) = 255 /\ b(5) = 255 /\ b(6) = 255 /\ b(7) = 255 /\ b(3) >= 192
             THEN low3 + 16777216 * (b(3) - 256)
             ELSE 0 - Far
        ELSE IF b(4) = 0 /\ b(5) = 0 /\ b(6) = 0 /\ b(7) = 0 /\ b(3) < 64
             THEN low3 + 16777216 * b(3)
             ELSE Far

\* (pos + 3) & ^3
Align4(n) == ((n + 3) \div 4) * 4

----------------------------------------------------------------------------
(* GUIDs and UCS-2 names (efi package) *)

Reverse(s) == [i \in 1..Len(s) |-> s[Len(s) + 1 - i]]

\* efi.ParseBinGUID(buf, off): the mixed-endian wire form to the canonical
\* byte order of the string form (first three fields little-endian on the wire)
ParseBinGUID(buf, off) ==
    Reverse(Slice(buf, off, off + 4)) \o Reverse(Slice(buf, off + 4, off + 6))
        \o Reverse(Slice(buf, off + 6, off + 8)) \o Slice(buf, off + 8, off + 16)

\* GUID.Bytes(): the canonical form back to the wire form
GuidBytes(g) ==
    Reverse(SubSeq(g, 1, 4)) \o Reverse(SubSeq(g, 5, 6)) \o Reverse(SubSeq(g, 7, 8))
        \o SubSeq(g, 9, 16)

\* efi.NvData = fff12b8d-7696-4c8b-a985-2747075b4f50
NvData == <<255, 241, 43, 141, 118, 150, 76, 139, 169, 133, 39, 71, 7, 91, 79, 80>>

\* efi.Ffs = 8c8ce578-8a3d-4f1c-9935-896185c32dd3
Ffs == <<140, 140, 229, 120, 138, 61, 79, 28, 153, 53, 137, 97, 133, 195, 45, 211>>

\* efi.AuthVars = aaf32c78-947b-439a-a180-2e144ec37792
AuthVars == <<170, 243, 44, 120, 148, 123, 67, 154, 161, 128, 46, 20, 78, 195, 119, 146>>

\* efi.EFI_GLOBAL_VARIABLE_GUID = 8be4df61-93ca-11d2-aa0d-00e098032b8c
EFI_GLOBAL_VARIABLE_GUID == <<139, 228, 223, 97, 147, 202, 17, 210, 170, 13, 0, 224, 152, 3, 43, 140>>

\* efi.FromUCS16(buf[off:]): the 16-bit code units up to the first zero unit,
\* or up to the end of the buffer when there is none
RECURSIVE FromUCS16(_, _)
FromUCS16(buf, off) ==
    IF off + 2 > Len(buf) THEN <<>>
    ELSE IF Uint16(buf, off) = 0 THEN <<>>
    ELSE <<Uint16(buf, off)>> \o FromUCS16(buf, off + 2)

\* UCS16String.Size(): bytes of the name, terminator included
NameSize(name) == 2 * (Len(name) + 1)

\* UCS16String.Bytes()
RECURSIVE NameBytes(_)
NameBytes(name) ==
    IF name = <<>> THEN <<0, 0>> ELSE LE16(name[1]) \o NameBytes(Tail(name))

----------------------------------------------------------------------------
(* EFI_TIME (efi/efivarlist.go) *)

NoTime == [year |-> 0]

\* EfiVar.ParseTime: time.Date(year, month, day, hour, minute, second, ns/1000)
\* for a year other than 0, nil otherwise.  The pad bytes, the time zone and
\* the daylight byte are not kept.  (Calendar fields are kept as read:
\* time.Date changes them only when they are out of range.)
ParseTime(buf, off) ==
    IF Uint16(buf, off) # 0
    THEN [year |-> Uint16(buf, off), month |-> At(buf, off + 2), day |-> At(buf, off + 3),
          hour |-> At(buf, off + 4), minute |-> At(buf, off + 5), second |-> At(buf, off + 6),
          nsec |-> ToInt(Uint32(buf, off + 8)) \div 1000]
    ELSE NoTime

\* uint32(v.Time.Nanosecond() / 1000)
TimeNanoField(t) == t.nsec \div 1000

\* EfiVar.BytesTime
BytesTime(t) ==
    IF t = NoTime THEN Fill(16, 0)
    ELSE LE16(t.year) \o <<t.month, t.day, t.hour, t.minute, t.second, 0>>
            \o LE32(TimeNanoField(t)) \o LE16(0) \o <<0, 0>>

----------------------------------------------------------------------------
(* Locating and validating the store (varstore/edk2.go) *)

Clamp(n) == IF n > Far THEN Far ELSE IF n < 0 - Far THEN 0 - Far ELSE n

\* findNvData: is the loop condition offset+64 < len(data) true
ScanContinues(buf, off) == off + 64 < Len(buf)

\* findNvData: one iteration of the loop at offset off
FindStep(buf, off) ==
    IF off + 16 < 0
    THEN [kind |-> "panic", off |-> off]
    ELSE LET guid == ParseBinGUID(buf, off + 16) IN
         IF guid = NvData THEN [kind |-> "found", off |-> off]
         ELSE IF guid = Ffs
              THEN IF off + 32 < 0
                   THEN [kind |-> "panic", off |-> off]
                   ELSE [kind |-> "next", off |-> Clamp(off + Int64(buf, off + 32))]
              ELSE [kind |-> "next", off |-> off + 1024]

\* "_FVH", 0x4856465f
FvhSignature == <<18015, 18518>>

\* parseVarstore(start): the store header checks and the bounds of the region
parseVarstore(buf, s) ==
    IF s + 22 > Len(buf)
    THEN [err |-> "panic", start |-> 0, end |-> 0]
    ELSE LET guid == ParseBinGUID(buf, s)
             size == Uint32(buf, s + 16)
             storefmt == At(buf, s + 20)
             state == At(buf, s + 21)
         IN  IF guid # AuthVars THEN [err |-> "guid", start |-> 0, end |-> 0]
             ELSE IF storefmt # 90 THEN [err |-> "format", start |-> 0, end |-> 0]
             ELSE IF state # 254 THEN [err |-> "state", start |-> 0, end |-> 0]
             ELSE [err |-> "none", start |-> s + 16 + 12,
                   end |-> IF IsSmall(size) THEN s + ToInt(size) ELSE Far]

\* the least offset parseVolume takes for a found volume
MinOffset == 1

\* parseVolume, after findNvData returned off (-1: not found)
parseVolume(buf, off) ==
    IF off < MinOffset
    THEN [err |-> "notfound", start |-> 0, end |-> 0]
    ELSE LET guid == ParseBinGUID(buf, off + 16)
             sig == Uint32(buf, off + 40)
             hlen == Uint16(buf, off + 48)
         IN  IF sig # FvhSignature THEN [err |-> "signature", start |-> 0, end |-> 0]
             ELSE IF guid # NvData THEN [err |-> "notvolume", start |-> 0, end |-> 0]
             ELSE parseVarstore(buf, off + hlen)

----------------------------------------------------------------------------
(* The record walk (Edk2VarStore.GetVarList) *)

\* EfiVarList{}
EmptyVarList == <<>>

\* varlist[name] = item
Put(l, name, item) == [k \in DOMAIN l \cup {name} |-> IF k = name THEN item ELSE l[k]]

\* buf[lo:hi], which may reach into the spare capacity (zero bytes) of buf
SliceCap(buf, lo, hi) == [i \in 1..(hi - lo) |-> IF lo + i <= Len(buf) THEN buf[lo + i] ELSE 0]

\* the step without the rounding up to a multiple of 4
NextPosUnaligned(pos, nsize, dsize) ==
    IF IsSmall(nsize) /\ IsSmall(dsize)
    THEN Min(pos + 44 + 16 + ToInt(nsize) + ToInt(dsize), Far)
    ELSE Far

\* pos += 44 + 16 + int(nsize) + int(dsize); pos = (pos + 3) & ^3
NextPos(pos, nsize, dsize) ==
    IF IsSmall(nsize) /\ IsSmall(dsize)
    THEN Min(Align4(pos + 44 + 16 + ToInt(nsize) + ToInt(dsize)), Far)
    ELSE Far

\* the EfiVar built from the record at pos, whose data is buf[lo:hi]
VarItem(buf, pos, lo, hi) ==
    [Name |-> FromUCS16(buf, pos + 44 + 16),
     Guid |-> ParseBinGUID(buf, pos + 44),
     Attr |-> ToInt(Uint32(buf, pos + 4)),
     Data |-> SliceCap(buf, lo, hi),
     Count |-> Int64(buf, pos + 8),
     Time |-> ParseTime(buf, pos + 16),
     PkIdx |-> ToInt(Uint32(buf, pos + 32)),
     DataOff |-> lo]

\* the state byte of a record that is loaded
StateAdded == 63

\* for pos < vs.end { ... }, from pos with the list acc built so far
RECURSIVE Walk(_, _, _, _, _)
Walk(buf, c, pos, e, acc) ==
    IF pos >= e THEN [st |-> "ok", list |-> acc]
    ELSE IF pos + 2 > Len(buf) THEN [st |-> "panic", list |-> acc]
    ELSE IF Uint16(buf, pos) # 21930 THEN [st |-> "ok", list |-> acc]
    ELSE IF pos + 44 > Len(buf) THEN [st |-> "panic", list |-> acc]
    ELSE LET state == At(buf, pos + 2)
             nsize == Uint32(buf, pos + 36)
             dsize == Uint32(buf, pos + 40)
             lo == Add32(Add32(FromInt(pos), FromInt(44 + 16)), nsize)
             hi == Add32(lo, dsize)
             sliceOK == /\ lo[2] < 16384
                        /\ hi[2] < 16384
                        /\ ToInt(lo) <= ToInt(hi)
                        /\ ToInt(hi) <= c
         IN  IF state = StateAdded
             THEN IF pos + 44 + 16 > Len(buf) \/ ~sliceOK
                  THEN [st |-> "panic", list |-> acc]
                  ELSE LET item == VarItem(buf, pos, ToInt(lo), ToInt(hi))
                       IN  Walk(buf, c, NextPos(pos, nsize, dsize), e, Put(acc, item.Name, item))
             ELSE Walk(buf, c, NextPos(pos, nsize, dsize), e, acc)

\* Edk2VarStore.GetVarList
GetVarList(buf, c, s, e) == Walk(buf, c, s, e, EmptyVarList)

----------------------------------------------------------------------------
(* The serializer (bytesVar, bytesVarList, bytesVarStore) *)

\* bytesVar: one record, padded with 0xFF to a multiple of 4
bytesVar(v) ==
    LET blob == <<170, 85, StateAdded, 0>> \o LE32(v.Attr) \o LE64(v.Count)
                    \o BytesTime(v.Time)
                    \o LE32(v.PkIdx) \o LE32(NameSize(v.Name)) \o LE32(Len(v.Data))
                    \o GuidBytes(v.Guid) \o NameBytes(v.Name) \o v.Data
        padding == (4 - (Len(blob) % 4)) % 4
    IN  blob \o Fill(padding, 255)

\* a < b for Go strings
RECURSIVE StrLess(_, _)
StrLess(a, b) ==
    IF b = <<>> THEN FALSE
    ELSE IF a = <<>> THEN TRUE
    ELSE IF a[1] # b[1] THEN a[1] < b[1]
    ELSE StrLess(Tail(a), Tail(b))

\* k put into the ascending list s
RECURSIVE Insert(_, _)
Insert(k, s) ==
    IF s = <<>> THEN <<k>>
    ELSE IF StrLess(k, s[1]) THEN <<k>> \o s
    ELSE <<s[1]>> \o Insert(k, Tail(s))

\* sort.Strings left out
SortUnchanged(keys) == keys

\* sort.Strings(keys)
RECURSIVE SortStrings(_)
SortStrings(keys) ==
    IF keys = <<>> THEN <<>> ELSE Insert(keys[1], SortStrings(Tail(keys)))

\* the orders in which "for k := range varlist" can yield the keys
KeyOrders(l) ==
    LET n == Cardinality(DOMAIN l)
    IN  {ks \in [1..n -> DOMAIN l] : \A i, j \in 1..n : i # j => ks[i] # ks[j]}

RECURSIVE Concat(_, _)
Concat(l, keys) ==
    IF keys = <<>> THEN <<>> ELSE bytesVar(l[keys[1]]) \o Concat(l, Tail(keys))

\* the comparison with >= for >
TooSmallOrFull(n, s, e) == n >= e - s

\* len(blob) > vs.end - vs.start
TooSmall(n, s, e) == n > e - s

\* bytesVarList, with the keys as the map iteration yielded them
bytesVarList(l, keys, s, e) ==
    LET blob == Concat(l, SortStrings(keys))
    IN  IF TooSmall(Len(blob), s, e)
        THEN [st |-> "overflow", blob |-> <<>>]
        ELSE [st |-> "ok", blob |-> blob]

\* the fill with 0x00 for 0xFF
PadToWithZero(blob, e) == blob \o Fill(IF e > Len(blob) THEN e - Len(blob) ELSE 0, 0)

\* for len(blob) < vs.end { blob = append(blob, 0xff) }
PadTo(blob, e) == blob \o Fill(IF e > Len(blob) THEN e - Len(blob) ELSE 0, 255)

\* bytesVarStore
bytesVarStore(buf, c, s, e, l, keys) ==
    IF s > c THEN [st |-> "panic", blob |-> <<>>]
    ELSE LET newVarList == bytesVarList(l, keys, s, e)
         IN  IF newVarList.st # "ok" THEN newVarList
             ELSE IF e > Len(buf) THEN [st |-> "panic", blob |-> <<>>]
             ELSE [st |-> "ok",
                   blob |-> PadTo(SliceCap(buf, 0, s) \o newVarList.blob, e)
                                \o Slice(buf, e, Len(buf))]

----------------------------------------------------------------------------
(* The image files the store is constructed from.  An image is laid out    *)
(* from a description: the bytes before the volume, the volume header, the *)
(* store header, the records, the 0xFF fill of the region and the bytes    *)
(* after it.                                                               *)

nA == <<65>>
nB == <<66>>
nC == <<67>>
nAB == <<65, 66>>
nZ == <<90>>
\* "Boot"
nBoot == <<66, 111, 111, 116>>
\* efi.BootNext = "BootNext"
BootNext == nBoot \o <<78, 101, 120, 116>>
\* efi.BootOrder = "BootOrder"
BootOrder == nBoot \o <<79, 114, 100, 101, 114>>
\* "SecureBoot", the one key of efivarDefaults
SecureBoot == <<83, 101, 99, 117, 114, 101>> \o nBoot
\* "Boot0099"
boot0099Name == nBoot \o <<48, 48, 57, 57>>

ZeroTime ==
    [year |-> 0, month |-> 0, day |-> 0, hour |-> 0, minute |-> 0, second |-> 0,
     pad1 |-> 0, ns |-> 0, tz |-> 0, dl |-> 0, pad2 |-> 0]

\* 2024-05-17 10:30:15 with the given nanosecond field
Stamp(ns) ==
    [year |-> 2024, month |-> 5, day |-> 17, hour |-> 10, minute |-> 30, second |-> 15,
     pad1 |-> 0, ns |-> ns, tz |-> 0, dl |-> 0, pad2 |-> 0]

TimeBytes(t) ==
    LE16(t.year) \o <<t.month, t.day, t.hour, t.minute, t.second, t.pad1>>
        \o LE32(t.ns) \o LE16(t.tz) \o <<t.dl, t.pad2>>

\* a record as the firmware writes it
Rec(name, state, attr, time, bytes) ==
    [name |-> name, state |-> state, pad |-> 0, attr |-> attr, count |-> 0, time |-> time,
     pk |-> 0, guid |-> EFI_GLOBAL_VARIABLE_GUID, data |-> bytes,
     nsz |-> LE32(NameSize(name)), dsz |-> LE32(Len(bytes)), padfill |-> 255]

RecBytes(r) ==
    LET blob == <<170, 85, r.state, r.pad>> \o LE32(r.attr) \o LE64(r.count)
                    \o TimeBytes(r.time) \o LE32(r.pk) \o r.nsz \o r.dsz
                    \o GuidBytes(r.guid) \o NameBytes(r.name) \o r.data
    IN  blob \o Fill((4 - (Len(blob) % 4)) % 4, r.padfill)

RECURSIVE RecsBytes(_)
RecsBytes(rs) == IF rs = <<>> THEN <<>> ELSE RecBytes(rs[1]) \o RecsBytes(Tail(rs))

\* a candidate header with the FFS GUID and the given 8 bytes of length, n bytes long
FfsPrefix(tlen, n) == Fill(16, 0) \o GuidBytes(Ffs) \o tlen \o Fill(n - 40, 255)

\* n bytes of 0xFF
Free(n) == Fill(n, 255)

\* a well-formed image: volume after the prefix pre, region of the records
\* followed by the bytes free (0xFF at least in its first two bytes), then
\* the bytes of tail
Image(pre, recs, free, tail) ==
    [pre |-> pre, vguid |-> NvData, sig |-> <<95, 70, 86, 72>>, hlen |-> 72,
     sguid |-> AuthVars, size |-> 28 + Len(RecsBytes(recs)) + Len(free), fmt |-> 90,
     st |-> 254, recs |-> recs, free |-> free, tail |-> tail, cut |-> 0, wf |-> TRUE]

FullBytes(d) ==
    d.pre
      \o Fill(16, 0) \o GuidBytes(d.vguid) \o LE64(4096) \o d.sig \o LE32(0)
      \o LE16(d.hlen) \o LE16(0) \o LE16(0) \o <<0, 2>> \o LE32(1) \o LE32(4096) \o Fill(8, 0)
      \o GuidBytes(d.sguid) \o LE32(d.size) \o <<d.fmt, d.st, 0, 0>> \o Fill(4, 0)
      \o RecsBytes(d.recs) \o d.free
      \o d.tail

\* the bytes of the file: the layout, cut to d.cut bytes when d.cut is not 0
ImageBytes(d) == IF d.cut = 0 THEN FullBytes(d) ELSE SubSeq(FullBytes(d), 1, d.cut)

Pre48 == FfsPrefix(LE64(48), 48)
Tail16 == Fill(16, 17)

RB == Rec(nB, 63, 7, ZeroTime, <<1, 2>>)
RAB == Rec(nAB, 63, 39, Stamp(0), <<9>>)
RA4 == Rec(nA, 63, 7, ZeroTime, <<1, 2, 3, 4>>)
RB1 == Rec(nB, 63, 7, ZeroTime, <<5>>)
RDel == Rec(nC, 60, 7, ZeroTime, <<7, 7, 7>>)

\* live, deleted and live records, not in name order
ImgMixed == Image(Pre48, <<RB, RDel, RAB>>, Free(12), Tail16)
\* two live records in name order that fill the region exactly
ImgFull == Image(Pre48, <<RA4, RB1>>, <<>>, Tail16)
\* the same with a region one byte shorter than the records with their padding
ImgFullLess1 == [ImgFull EXCEPT !.size = ImgFull.size - 1, !.wf = FALSE]
\* one live record whose EFI_TIME has a non-zero nanosecond field
ImgStampNs == Image(Pre48, <<Rec(nA, 63, 39, Stamp(5000), <<1>>)>>, Free(8), Tail16)
\* one live record whose EFI_TIME has a time zone
ImgStampTz == Image(Pre48, <<Rec(nA, 63, 39, [Stamp(0) EXCEPT !.tz = 60], <<1>>)>>, Free(8), Tail16)
\* one live record in sorted order, no time: the plainest store
ImgPlain == Image(Pre48, <<Rec(nA, 63, 7, ZeroTime, <<>>)>>, Free(72), Tail16)
\* the volume in the second 1024-byte block
ImgBlock == Image(Fill(1024, 255), <<RB1>>, Free(4), Tail16)
\* the volume at offset 0
ImgAtZero == Image(<<>>, <<RB1>>, Free(4), Tail16)
\* a free slot followed by the bytes of a stale record: the walk stops at the slot
ImgGap == Image(Pre48, <<RA4>>, Free(4) \o RecBytes(RB1), Tail16)
\* two live records of the same name with different GUIDs
ImgDup == Image(Pre48, <<RB1, [RB EXCEPT !.guid = AuthVars]>>, Free(4), Tail16)

\* no volume anywhere
ImgNone == [Image(Pre48, <<>>, Free(40), Tail16) EXCEPT !.vguid = AuthVars, !.wf = FALSE]
\* too short to be scanned
ImgShort == [Image(<<>>, <<>>, <<>>, <<>>) EXCEPT !.pre = Fill(60, 255), !.vguid = AuthVars,
                                                !.hlen = 0, !.wf = FALSE]
ImgBadSig == [ImgPlain EXCEPT !.sig = <<95, 70, 86, 0>>, !.wf = FALSE]
ImgBadGuid == [ImgPlain EXCEPT !.sguid = NvData, !.wf = FALSE]
ImgBadFmt == [ImgPlain EXCEPT !.fmt = 91, !.wf = FALSE]
ImgBadState == [ImgPlain EXCEPT !.st = 255, !.wf = FALSE]
\* the store header's size is smaller than the header itself
ImgSizeSmall == [ImgPlain EXCEPT !.size = 16, !.wf = FALSE]
\* the store header's size reaches past the end of the image
ImgSizeBig == [ImgPlain EXCEPT !.size = 4096, !.wf = FALSE]
\* the volume header's length points past the end of the image
ImgHlenBig == [ImgPlain EXCEPT !.hlen = 4096, !.wf = FALSE]
\* an FFS candidate of length 0
ImgFfsZero == [ImgPlain EXCEPT !.pre = FfsPrefix(LE64(0), 48), !.wf = FALSE]
\* an FFS candidate of length 2^64 - 4096
ImgFfsNeg == [ImgPlain EXCEPT !.pre = FfsPrefix(<<0, 240, 255, 255, 255, 255, 255, 255>>, 48),
                              !.wf = FALSE]
\* an FFS candidate longer than the image
ImgFfsHuge == [ImgPlain EXCEPT !.pre = FfsPrefix(LE64(65536), 48), !.wf = FALSE]
\* a record whose data size reaches past the region, inside the image
ImgDataPastEnd ==
    [Image(Pre48, <<[RB1 EXCEPT !.dsz = LE32(12)]>>, <<>>, Tail16) EXCEPT !.wf = FALSE]
\* a record whose data size reaches past the image
ImgDataPastBuf ==
    [Image(Pre48, <<[RB1 EXCEPT !.dsz = LE32(4096)]>>, <<>>, Tail16) EXCEPT !.wf = FALSE]
\* a record whose header starts inside the region and ends after it
ImgHdrPastEnd ==
    [Image(Pre48, <<RA4, RB1>>, <<>>, Tail16) EXCEPT !.size = 28 + 68 + 20, !.wf = FALSE]
\* sizes for which pos + 60 + name_size + data_size wraps around 2^32
ImgWrap ==
    [Image(Pre48, <<[RB1 EXCEPT !.nsz = <<240, 255, 255, 255>>, !.dsz = LE32(16)]>>, Free(8), Tail16)
        EXCEPT !.wf = FALSE]

\* the file ends inside the store header, whose size field is below 28
ImgCut == [ImgPlain EXCEPT !.size = 16, !.cut = 48 + 72 + 23, !.wf = FALSE]

\* the embedded base image: a variable, an older Boot0099 and BootNext, and room
ImgPxe ==
    Image(Pre48, <<RB1, Rec(boot0099Name, 63, 7, ZeroTime, <<1, 2, 3>>),
                   Rec(BootNext, 63, 7, ZeroTime, <<1, 0>>)>>, Free(400), Tail16)
\* a base image without boot variables
ImgPxeFresh == Image(Pre48, <<RB1>>, Free(400), Tail16)
\* a store with a boot order, a BootNext, a time-authenticated variable and a
\* variable without the time-based-auth bit whose EFI_TIME is set
ImgBoot ==
    Image(Pre48, <<RAB, Rec(BootNext, 63, 7, ZeroTime, <<1, 0>>),
                   Rec(BootOrder, 63, 7, ZeroTime, <<1, 0, 153, 0>>),
                   Rec(nC, 63, 7, Stamp(0), <<7>>)>>, Free(8), Tail16)
\* a store whose typed variables have the wrong sizes
ImgOdd ==
    Image(Pre48, <<Rec(nA, 63, 7, ZeroTime, <<1, 2, 3>>), Rec(BootNext, 63, 7, ZeroTime, <<1>>),
                   Rec(BootOrder, 63, 39, ZeroTime, <<1, 0, 2>>)>>, Free(4), Tail16)

\* "Boot0000", "Boot0001" and "BootFFFF"
boot0000Name == nBoot \o <<48, 48, 48, 48>>
boot0001Name == nBoot \o <<48, 48, 48, 49>>
bootFFFFName == nBoot \o <<70, 70, 70, 70>>
\* "HD"
TitleDisk == <<72, 68>>
\* "PXE"
TitleNet == <<80, 88, 69>>
\* an active load option with the given title and a bare End-Of-Path node
LoadOption(title) == LE32(1) \o LE16(4) \o NameBytes(title) \o <<127, 255, 4, 0>>
\* a store with a network and a disk entry, both in the boot order
ImgEntries ==
    Image(Pre48, <<Rec(boot0000Name, 63, 7, ZeroTime, LoadOption(TitleNet)),
                   Rec(boot0001Name, 63, 7, ZeroTime, LoadOption(TitleDisk)),
                   Rec(BootOrder, 63, 7, ZeroTime, <<0, 0, 1, 0>>)>>, Free(8), Tail16)
\* a store whose entries are the first and the last index; the first is in the boot order
ImgLastIndex ==
    Image(Pre48, <<Rec(boot0000Name, 63, 7, ZeroTime, LoadOption(TitleDisk)),
                   Rec(bootFFFFName, 63, 7, ZeroTime, LoadOption(TitleDisk)),
                   Rec(BootOrder, 63, 7, ZeroTime, <<0, 0>>)>>, Free(8), Tail16)
\* a store whose only Boot variable is BootNext
ImgNextOnly == Image(Pre48, <<RB1, Rec(BootNext, 63, 7, ZeroTime, <<1, 0>>)>>, Free(8), Tail16)

\* a small image for the base reader: the first 40 bytes of a volume header
ImgTiny == [ImgAtZero EXCEPT !.cut = 40, !.wf = FALSE]

Images ==
    <<ImgStampNs, ImgStampTz, ImgMixed, ImgFull, ImgFullLess1, ImgPlain, ImgBlock, ImgAtZero,
      ImgGap, ImgDup, ImgNone, ImgShort, ImgBadSig, ImgBadGuid, ImgBadFmt, ImgBadState,
      ImgSizeSmall, ImgSizeBig, ImgHlenBig, ImgFfsZero, ImgFfsNeg, ImgFfsHuge,
      ImgDataPastEnd, ImgDataPastBuf, ImgHdrPastEnd, ImgWrap, ImgCut,
      ImgPxe, ImgPxeFresh, ImgBoot, ImgOdd, ImgTiny, ImgEntries, ImgLastIndex, ImgNextOnly>>

\* the place of an image in Images
IndexOf(d) == CHOOSE i \in 1..Len(Images) : Images[i] = d

\* the variables a caller hands to SetVariable, each under its own name
OwnVar(name, attr, time, bytes) ==
    [Name |-> name, Guid |-> EFI_GLOBAL_VARIABLE_GUID, Attr |-> attr, Data |-> bytes,
     Count |-> 0, Time |-> time, PkIdx |-> 0, DataOff |-> 0 - 1]

GoTime(ns) ==
    [year |-> 2025, month |-> 1, day |-> 2, hour |-> 3, minute |-> 4, second |-> 5, nsec |-> ns]

SetValues ==
    {OwnVar(nA, 7, NoTime, <<>>),
     OwnVar(nA, 7, NoTime, <<1, 2, 3, 4, 5>>),
     OwnVar(nC, 39, GoTime(0), <<8>>),
     OwnVar(nC, 39, GoTime(123456789), <<8>>),
     OwnVar(nZ, 7, NoTime, Fill(200, 0))}

DeleteNames == {nA, nB, nZ}

\* what a call returns: an error kind and a value (a sequence of numbers)
NoValue == [err |-> "none", val |-> <<>>]

\* no call on the collection yet
NoOp == [name |-> "none", key |-> <<>>, arg |-> <<>>]

\* the RWMutex with no holder
NoLock == [readers |-> {}, writer |-> 0]

NoRead == [name |-> "none", arg |-> <<>>, n |-> 0, err |-> "none", bytes |-> <<>>]

\* no Read has returned bytes since the position was set to from
NoneFrom(from) == [from |-> from, bytes |-> <<>>]

\* a map that is not nil
Map(l) == [isnil |-> FALSE, m |-> l]

\* no call on the JSON manager yet
NoJsonCall ==
    [name |-> "none", err |-> "none", wrote |-> FALSE, mac |-> <<>>, key |-> <<>>, value |-> <<>>]

\* the JSON manager where it is not used: no data directory
JsonUnused ==
    /\ currentMAC = <<>>
    /\ variables = Map(<<>>)
    /\ modified = FALSE
    /\ disk = <<>>
    /\ jret = NoJsonCall

\* a name the archive functions have not been asked about
Unasked(name) == [name |-> name, util |-> "unset", source |-> "unset", extract |-> "unset"]

\* the archive functions where they are not used
ArchUnused == arch = Unasked(<<>>)

\* the state of a base reader as GetBaseReadSeeker returns it
ReaderUnused ==
    /\ frpos = 0
    /\ got = NoneFrom(0)
    /\ rd = NoRead

----------------------------------------------------------------------------
(* The program: NewEDK2Manager (NewEdk2VarStore, GetVarList), then calls   *)
(* on the manager.                                                         *)

Init ==
    /\ img \in 1..Len(Images)
    /\ data = ImageBytes(Images[img])
    /\ cap \in Len(data)..(Len(data) + MaxSlack)
    /\ offset = 0
    /\ steps = 0
    /\ start = 0
    /\ end = 0
    /\ perr = "unset"
    /\ varlist = EmptyVarList
    /\ file = data
    /\ res = "none"
    /\ nops = 0
    /\ pc = "scan"
    /\ now = NoTime
    /\ op = NoOp
    /\ ret = NoValue
    /\ heap = <<>>
    /\ cached = FALSE
    /\ stores = 0
    /\ lock = NoLock
    /\ ReaderUnused
    /\ JsonUnused
    /\ ArchUnused
    /\ calls = <<>>

\* findNvData: one iteration of "for offset+64 < len(data)"
ScanStep ==
    /\ pc = "scan"
    /\ ScanContinues(data, offset)
    /\ steps < MaxSteps
    /\ LET r == FindStep(data, offset) IN
         /\ offset' = r.off
         /\ pc' = IF r.kind = "found" THEN "located"
                  ELSE IF r.kind = "panic" THEN "panicked" ELSE "scan"
    /\ steps' = steps + 1
    /\ UNCHANGED <<img, data, cap, start, end, perr, varlist, file, res, nops>>
    /\ UNCHANGED <<efivars, simvars, othervars>>

\* findNvData: the loop condition fails, return -1
ScanEnd ==
    /\ pc = "scan"
    /\ ~ScanContinues(data, offset)
    /\ offset' = 0 - 1
    /\ pc' = "located"
    /\ UNCHANGED <<img, data, cap, steps, start, end, perr, varlist, file, res, nops>>
    /\ UNCHANGED <<efivars, simvars, othervars>>

\* parseVolume after findNvData returned; NewEdk2VarStore drops its error
ParseVolume ==
    /\ pc = "located"
    /\ LET r == parseVolume(data, offset) IN
         /\ perr' = r.err
         /\ pc' = IF r.err = "panic" THEN "panicked" ELSE "constructed"
         /\ start' = IF r.err = "none" THEN r.start ELSE start
         /\ end' = IF r.err = "none" THEN r.end ELSE end
    /\ UNCHANGED <<img, data, cap, offset, steps, varlist, file, res, nops>>
    /\ UNCHANGED <<efivars, simvars, othervars>>

\* NewEDK2Manager: manager.varList, err = manager.varStore.GetVarList()
NewEDK2Manager ==
    /\ pc = "constructed"
    /\ LET r == GetVarList(data, cap, start, end) IN
         /\ pc' = IF r.st = "panic" THEN "panicked" ELSE "ready"
         /\ res' = IF r.st = "ok" THEN "loaded" ELSE r.st
         /\ varlist' = IF r.st = "ok" THEN r.list ELSE varlist
    /\ UNCHANGED <<img, data, cap, offset, steps, start, end, perr, file, nops>>
    /\ UNCHANGED <<efivars, simvars, othervars>>

\* EDK2Manager.SetVariable(name, value)
SetVariable(value) ==
    /\ pc = "ready"
    /\ nops < MaxOps
    /\ varlist' = Put(varlist, value.Name, value)
    /\ res' = "set"
    /\ nops' = nops + 1
    /\ op' = [name |-> "SetVariable", key |-> value.Name, arg |-> <<>>]
    /\ ret' = NoValue
    /\ UNCHANGED <<img, data, cap, offset, steps, start, end, perr, file, pc>>
    /\ UNCHANGED <<now, simvars, othervars>>

\* delete(m.varList, name)
Remove(l, name) == [k \in DOMAIN l \ {name} |-> l[k]]

\* EDK2Manager.DeleteVariable(name)
DeleteVariable(name) ==
    /\ pc = "ready"
    /\ nops < MaxOps
    /\ IF name \in DOMAIN varlist
       THEN varlist' = Remove(varlist, name) /\ res' = "deleted"
       ELSE varlist' = varlist /\ res' = "notfound"
    /\ nops' = nops + 1
    /\ op' = [name |-> "DeleteVariable", key |-> name, arg |-> <<>>]
    /\ ret' = [err |-> IF name \in DOMAIN varlist THEN "none" ELSE "notfound", val |-> <<>>]
    /\ UNCHANGED <<img, data, cap, offset, steps, start, end, perr, file, pc>>
    /\ UNCHANGED <<now, simvars, othervars>>

\* EDK2Manager.SaveChanges: WriteVarStore(m.firmwarePath, m.varList)
SaveChanges ==
    /\ pc = "ready"
    /\ nops < MaxOps
    /\ \E keys \in KeyOrders(varlist) :
         LET r == bytesVarStore(data, cap, start, end, varlist, keys) IN
           /\ res' = IF r.st = "ok" THEN "saved" ELSE r.st
           /\ file' = IF r.st = "ok" THEN r.blob ELSE file
           /\ pc' = IF r.st = "panic" THEN "panicked" ELSE pc
    /\ nops' = nops + 1
    /\ op' = [name |-> "SaveChanges", key |-> <<>>, arg |-> <<>>]
    /\ ret' = NoValue
    /\ UNCHANGED <<img, data, cap, offset, steps, start, end, perr, varlist>>
    /\ UNCHANGED <<now, simvars, othervars>>

\* EDK2Manager.RevertChanges: m.varList, err = m.varStore.GetVarList()
RevertChanges ==
    /\ pc = "ready"
    /\ nops < MaxOps
    /\ LET r == GetVarList(data, cap, start, end) IN
         /\ pc' = IF r.st = "panic" THEN "panicked" ELSE pc
         /\ res' = IF r.st = "ok" THEN "reverted" ELSE r.st
         /\ varlist' = IF r.st = "ok" THEN r.list ELSE varlist
    /\ nops' = nops + 1
    /\ op' = [name |-> "RevertChanges", key |-> <<>>, arg |-> <<>>]
    /\ ret' = NoValue
    /\ UNCHANGED <<img, data, cap, offset, steps, start, end, perr, file>>
    /\ UNCHANGED <<now, simvars, othervars>>

Next ==
    \/ ScanStep
    \/ ScanEnd
    \/ ParseVolume
    \/ NewEDK2Manager
    \/ \E value \in SetValues : SetVariable(value)
    \/ \E name \in DeleteNames : DeleteVariable(name)
    \/ SaveChanges
    \/ RevertChanges

Spec == Init /\ [][Next]_vars

----------------------------------------------------------------------------
(* Properties *)

\* the description of the image the store was constructed from
Desc == Images[img]

\* a step of SaveChanges (WriteVarStore)
SaveStep == pc = "ready" /\ nops' = nops + 1 /\ res' \in {"saved", "overflow", "panic"}

RECURSIVE SumLen(_, _)
\* the sum of the padded encoded lengths of the records of l named in S
SumLen(l, S) ==
    IF S = {} THEN 0
    ELSE LET k == CHOOSE x \in S : TRUE
         IN  Align4(44 + 16 + NameSize(l[k].Name) + Len(l[k].Data)) + SumLen(l, S \ {k})

EncodedLen(l) == SumLen(l, DOMAIN l)

\* the records of an image are all live, of distinct names and in name order:
\* the layout the serializer itself produces
RECURSIVE InNameOrder(_)
InNameOrder(rs) ==
    \/ Len(rs) <= 1
    \/ /\ StrLess(rs[1].name, rs[2].name)
       /\ InNameOrder(Tail(rs))

SerializerLayout(d) ==
    /\ d.wf
    /\ \A i \in 1..Len(d.recs) : d.recs[i].state = 63
    /\ InNameOrder(d.recs)
    /\ \A i \in 1..Len(d.free) : d.free[i] = 255

\* C1: for a well-formed image, loading it and saving the unmodified list
\* writes a file byte-equal to the image, the EFI_TIME field of every record
\* included.  (Stated for the images that are in the serializer's own layout:
\* live records only, in name order, 0xFF after them.)
C1_RoundTripByteExact ==
    (pc = "ready" /\ nops = 1 /\ res = "saved" /\ SerializerLayout(Desc)) => file = data

\* C2: a SaveChanges that returns an image leaves the loaded buffer as it
\* was, and the image has the length of the buffer, equals it at every offset
\* outside [start, end), and holds only 0xFF between the end of the encoded
\* records and end.
C2_Frame ==
    [][SaveStep =>
        /\ data' = data
        /\ res' = "saved" =>
             /\ Len(file') = Len(data)
             /\ \A i \in 0..(Len(data) - 1) : (i < start \/ i >= end) => At(file', i) = At(data, i)
             /\ start + EncodedLen(varlist) <= end
             /\ \A i \in (start + EncodedLen(varlist))..(end - 1) : At(file', i) = 255
             /\ EncodedLen(varlist) > 0 => Uint16(file', start) = 21930]_vars

\* C2 witness: an image was written whose region has records and 0xFF fill,
\* with bytes of the image before and after the region
C2_Witness ==
    /\ res = "saved"
    /\ 0 < EncodedLen(varlist)
    /\ start + EncodedLen(varlist) < end
    /\ 0 < start
    /\ end < Len(data)
    /\ file # data

\* C3: a SaveChanges that returns fails with the overflow error exactly when
\* the sum of the padded record lengths exceeds end - start, and a failed
\* SaveChanges writes no file and changes neither the buffer nor the
\* collection.
C3_Overflow ==
    [][SaveStep =>
        /\ res' = "overflow" => EncodedLen(varlist) > end - start
        /\ res' = "saved" => EncodedLen(varlist) <= end - start
        /\ (EncodedLen(varlist) > end - start /\ start <= cap) => res' = "overflow"
        /\ res' # "saved" => (file' = file /\ data' = data /\ varlist' = varlist)]_vars

\* C3 witness: the save failed with one byte too many
C3_Witness == res = "overflow" /\ EncodedLen(varlist) = end - start + 1 /\ file = data

\* C3, the other side of the boundary: a collection of exactly end - start
\* bytes was saved
C3_ExactFit == res = "saved" /\ EncodedLen(varlist) = end - start /\ EncodedLen(varlist) > 0

\* the least of the names in S
MinName(S) == CHOOSE k \in S : \A j \in S \ {k} : StrLess(k, j)

\* the names of S in ascending order
RECURSIVE Ascending(_)
Ascending(S) == IF S = {} THEN <<>> ELSE <<MinName(S)>> \o Ascending(S \ {MinName(S)})

\* the offset in buf of the i-th record of l in ascending name order
RECURSIVE OffsetOf(_, _, _)
OffsetOf(l, names, i) ==
    IF i = 1 THEN 0
    ELSE OffsetOf(l, names, i - 1)
           + Align4(44 + 16 + NameSize(l[names[i - 1]].Name) + Len(l[names[i - 1]].Data))

\* C4: the image written depends only on the contents of the collection,
\* whatever order the map yields its keys in: the i-th record of the region
\* is the record of the i-th name in ascending order.
C4_NameOrder ==
    res = "saved" =>
        LET names == Ascending(DOMAIN varlist) IN
        \A i \in 1..Len(names) :
            LET at == start + OffsetOf(varlist, names, i) IN
            /\ Uint16(file, at) = 21930
            /\ FromUCS16(file, at + 44 + 16) = names[i]
            /\ Slice(file, at + 44 + 16 + NameSize(names[i]),
                     at + 44 + 16 + NameSize(names[i]) + Len(varlist[names[i]].Data))
                 = varlist[names[i]].Data

\* C4 witness: a name set after the load sorts before the names that were
\* loaded, and the collection of three names was saved
C4_Witness ==
    /\ res = "saved"
    /\ DOMAIN varlist = {nA, nB, nAB}
    /\ varlist[nA].DataOff = 0 - 1
    /\ varlist[nB].DataOff > 0

\* the fields of a variable that the store keeps
Fields(v) ==
    [Name |-> v.Name, Guid |-> v.Guid, Attr |-> v.Attr, Count |-> v.Count,
     PkIdx |-> v.PkIdx, Time |-> v.Time, Data |-> v.Data]

\* C5: parsing the image that was written yields the names of the collection
\* and, for each name, the same guid, attr, count, pk_idx, time and data.
C5_SaveThenLoad ==
    res = "saved" =>
        LET r == GetVarList(file, Len(file), start, end) IN
        /\ r.st = "ok"
        /\ DOMAIN r.list = DOMAIN varlist
        /\ \A k \in DOMAIN varlist : Fields(r.list[k]) = Fields(varlist[k])

\* what C5 says of everything but the time
C5_ButTime ==
    res = "saved" =>
        LET r == GetVarList(file, Len(file), start, end) IN
        /\ r.st = "ok"
        /\ DOMAIN r.list = DOMAIN varlist
        /\ \A k \in DOMAIN varlist :
              [Fields(r.list[k]) EXCEPT !.Time = NoTime] = [Fields(varlist[k]) EXCEPT !.Time = NoTime]

\* the live records of an image description: for each name, the fields of
\* the last record of that name whose state byte is 0x3f
LiveNames(d) == {d.recs[i].name : i \in {j \in 1..Len(d.recs) : d.recs[j].state = 63}}

LastLive(d, name) ==
    LET S == {j \in 1..Len(d.recs) : d.recs[j].state = 63 /\ d.recs[j].name = name}
    IN  d.recs[CHOOSE j \in S : \A k \in S : k <= j]

\* after a save the region holds n records, then only 0xFF
OnlyRecordsThenFree(buf, s, e, l) ==
    LET r == GetVarList(buf, Len(buf), s, e) IN
    /\ r.st = "ok"
    /\ DOMAIN r.list = DOMAIN l
    /\ \A i \in (s + EncodedLen(l))..(e - 1) : At(buf, i) = 255

\* C6: in a store whose bounds were found, the walk loads exactly the records whose state byte is 0x3f, stepping
\* over the others by their full aligned size and stopping at the first slot
\* without the magic; saving the loaded list writes a region of the live
\* records followed by 0xFF only.
C6_LiveRecords ==
    (pc = "ready" /\ perr = "none" /\ Desc.wf /\ res \in {"loaded", "saved"} /\ nops <= 1) =>
        /\ DOMAIN varlist = LiveNames(Desc)
        /\ \A k \in DOMAIN varlist :
             LET r == LastLive(Desc, k) IN
             /\ varlist[k].Name = r.name
             /\ varlist[k].Guid = r.guid
             /\ varlist[k].Attr = r.attr
             /\ varlist[k].Data = r.data
             /\ varlist[k].Count = r.count
             /\ varlist[k].PkIdx = r.pk
        /\ res = "saved" => OnlyRecordsThenFree(file, start, end, varlist)

\* C6 witness: an image with a deleted record before a live one was loaded
\* and saved, and the file differs from the image
C6_Witness ==
    /\ pc = "ready" /\ Desc.wf /\ res = "saved" /\ nops = 1
    /\ \E i, j \in 1..Len(Desc.recs) :
          i < j /\ Desc.recs[i].state # 63 /\ Desc.recs[j].state = 63
    /\ file # data

\* does a record of the chain from pos reach past e (or past the buffer)
RECURSIVE RecordOverruns(_, _, _)
RecordOverruns(buf, pos, e) ==
    IF pos >= e \/ pos + 2 > Len(buf) THEN FALSE
    ELSE IF Uint16(buf, pos) # 21930 THEN FALSE
    ELSE IF pos + 44 + 16 > e \/ pos + 44 + 16 > Len(buf) THEN TRUE
    ELSE LET nsize == Uint32(buf, pos + 36)
             dsize == Uint32(buf, pos + 40)
         IN  IF ~IsSmall(nsize) \/ ~IsSmall(dsize) THEN TRUE
             ELSE IF pos + 44 + 16 + ToInt(nsize) + ToInt(dsize) > e THEN TRUE
             ELSE RecordOverruns(buf, Align4(pos + 44 + 16 + ToInt(nsize) + ToInt(dsize)), e)

\* C7: when a record's header or its declared sizes reach past end,
\* GetVarList returns an error: it neither returns a list nor aborts.
C7_MalformedRecordRejected ==
    (perr = "none" /\ nops = 0 /\ res # "none" /\ RecordOverruns(data, start, end))
        => res = "malformed"

\* the image holds a volume that the scan reaches and whose header checks pass
VolumePresent(d) ==
    /\ d.vguid = NvData /\ d.sig = <<95, 70, 86, 72>> /\ d.hlen = 72
    /\ d.sguid = AuthVars /\ d.fmt = 90 /\ d.st = 254 /\ d.cut = 0
    /\ d.pre \in {<<>>, Pre48, Fill(1024, 255)}

\* C8: NewEDK2Manager hands out a manager only for an image in which the
\* volume was found and validated, at whatever offset it lies, offset 0
\* included; a failed locate or validation is not a loaded empty collection.
C8_LoadErrorsSurface ==
    pc = "ready" => (VolumePresent(Desc) /\ perr = "none")

\* C9: after parseVolume, a successful parse has set start = offset +
\* hdr_len + 28 and end = offset + hdr_len + size with start < end <=
\* len(image); a failed parse has left start and end as they were.
C9_BoundsInvariant ==
    pc \in {"constructed", "ready"} =>
        /\ perr = "none" =>
             /\ start = offset + Desc.hlen + 28
             /\ end = offset + Desc.hlen + Desc.size
             /\ start < end
             /\ end <= Len(data)
        /\ perr # "none" => (start = 0 /\ end = 0)

\* C10: every iteration of the findNvData loop moves the offset forward and
\* none reads outside the buffer.
C10_ScanAdvances ==
    [][pc = "scan" =>
        /\ pc' # "panicked"
        /\ (pc' = "scan" /\ steps' = steps + 1) => offset' > offset]_vars

----------------------------------------------------------------------------
(* The EFI variable model (efi/efivarlist.go): names, the time-update rule, *)
(* the typed setters and getters of EfiVar, NewEfiVar.                      *)


\* hexTable = "0123456789ABCDEF"
hexTable == <<48, 49, 50, 51, 52, 53, 54, 55, 56, 57, 65, 66, 67, 68, 69, 70>>

\* the digits of %x and of net.HardwareAddr.String()
hexLower == <<48, 49, 50, 51, 52, 53, 54, 55, 56, 57, 97, 98, 99, 100, 101, 102>>

\* fmt.Sprintf("Boot%04X", index)
BootName(index) ==
    nBoot \o <<hexTable[((index \div 4096) % 16) + 1], hexTable[((index \div 256) % 16) + 1],
               hexTable[((index \div 16) % 16) + 1], hexTable[(index % 16) + 1]>>

\* strings.HasPrefix(name, prefix)
HasPrefix(name, prefix) ==
    Len(name) >= Len(prefix) /\ SubSeq(name, 1, Len(prefix)) = prefix

\* attr & bit != 0, for a bit given as a power of two
HasBit(attr, bit) == (attr \div bit) % 2 = 1

EfiVariableNonVolatile == 1
EfiVariableBootserviceAccess == 2
EfiVariableRuntimeAccess == 4
EfiVariableTimeBasedAuthenticatedWriteAccess == 32
\* EfiVariableNonVolatile | EfiVariableBootserviceAccess
EfiVariableDefault == 3
\* bootDefaults.Attr
BootDefaultsAttr == 7
\* efivarDefaults["SecureBoot"].Attr
SecureBootAttr == 6
LOAD_OPTION_ACTIVE == 1

\* the zero value of efi.GUID
ZeroGuid == Fill(16, 0)

\* v.Guid.String() == "": the GUID has not been set
GuidUnset(g) == g = ZeroGuid

\* t.Before(u) on the instants of two times
RECURSIVE LexLess(_, _)
LexLess(a, b) ==
    IF a = <<>> THEN FALSE
    ELSE IF a[1] # b[1] THEN a[1] < b[1]
    ELSE LexLess(Tail(a), Tail(b))

Instant(t) == <<t.year, t.month, t.day, t.hour, t.minute, t.second, t.nsec>>

Before(t, u) == LexLess(Instant(t), Instant(u))

\* EfiVar.updateTime(nil) when time.Now().UTC() returns t
updateTime(v, t) ==
    IF ~HasBit(v.Attr, EfiVariableTimeBasedAuthenticatedWriteAccess) THEN v
    ELSE IF v.Time = NoTime \/ Before(v.Time, t) THEN [v EXCEPT !.Time = t]
    ELSE v

\* v.Data = buf for a freshly allocated buf
WithData(v, buf) == [v EXCEPT !.Data = buf, !.DataOff = 0 - 1]

\* EfiVar.SetBool
EfiVarSetBool(v, value, t) == updateTime(WithData(v, IF value THEN <<1>> ELSE <<0>>), t)

\* EfiVar.SetString: the bytes of the string, 0-terminated
EfiVarSetString(v, value, t) ==
    updateTime(WithData(v, IF value = <<>> \/ value[Len(value)] # 0
                           THEN value \o <<0>> ELSE value), t)

\* the value of a hex digit, -1 for any other character
HexVal(c) ==
    IF c >= 48 /\ c <= 57 THEN c - 48
    ELSE IF c >= 97 /\ c <= 102 THEN c - 87
    ELSE IF c >= 65 /\ c <= 70 THEN c - 55
    ELSE 0 - 1

\* hex.DecodeString
HexDecode(value) ==
    IF Len(value) % 2 # 0 \/ \E i \in 1..Len(value) : HexVal(value[i]) < 0
    THEN [err |-> "hex", val |-> <<>>]
    ELSE [err |-> "none",
          val |-> [i \in 1..(Len(value) \div 2) |->
                      16 * HexVal(value[2 * i - 1]) + HexVal(value[2 * i])]]

\* EfiVar.SetHexString: the decoded bytes become the data, and that is all
EfiVarSetHexString(v, value, t) ==
    IF HexDecode(value).err # "none" THEN v ELSE WithData(v, HexDecode(value).val)

\* EfiVar.SetUint32
EfiVarSetUint32(v, value, t) == updateTime(WithData(v, LE32(value)), t)

\* EfiVar.SetBootNext
EfiVarSetBootNext(v, index, t) == updateTime(WithData(v, LE16(index)), t)

\* the indices with the high byte first
RECURSIVE OrderBytesBig(_)
OrderBytesBig(order) ==
    IF order = <<>> THEN <<>>
    ELSE <<order[1] \div 256, order[1] % 256>> \o OrderBytesBig(Tail(order))

\* EfiVar.SetBootOrder
RECURSIVE OrderBytes(_)
OrderBytes(order) ==
    IF order = <<>> THEN <<>> ELSE LE16(order[1]) \o OrderBytes(Tail(order))

EfiVarSetBootOrder(v, order, t) == updateTime(WithData(v, OrderBytes(order)), t)

\* EfiVar.SetFromFile when os.ReadFile returned content
EfiVarSetFromFile(v, content, t) == updateTime(WithData(v, content), t)

\* EfiVar.GetUint32: the value as two 16-bit limbs
EfiVarGetUint32(v) ==
    IF Len(v.Data) < 4 THEN [err |-> "short", val |-> <<>>]
    ELSE [err |-> "none", val |-> Uint32(v.Data, 0)]

\* EfiVar.GetBootNext
EfiVarGetBootNext(v) ==
    IF Len(v.Data) < 2 THEN [err |-> "short", val |-> <<>>]
    ELSE [err |-> "none", val |-> <<Uint16(v.Data, 0)>>]

\* EfiVar.GetBootOrder: for pos := range len(v.Data) / 2, never an error
EfiVarGetBootOrder(v) ==
    [err |-> "none",
     val |-> [i \in 1..(Len(v.Data) \div 2) |-> Uint16(v.Data, 2 * (i - 1))]]

\* NewEfiVar(name, guid, attr, data, count); guid = <<>> stands for nil
NewEfiVar(name, guid, attr, bytes, count) ==
    LET v == [Name |-> name, Guid |-> IF guid = <<>> THEN ZeroGuid ELSE guid,
              Attr |-> attr, Data |-> bytes, Count |-> count, Time |-> NoTime,
              PkIdx |-> 0, DataOff |-> 0 - 1]
        ok == name = SecureBoot
    IN  IF ~ok /\ HasPrefix(name, nBoot)
        THEN [v EXCEPT !.Guid = EFI_GLOBAL_VARIABLE_GUID,
                       !.Attr = IF v.Attr = 0 THEN BootDefaultsAttr ELSE v.Attr]
        ELSE IF ok
        THEN [v EXCEPT !.Guid = IF GuidUnset(v.Guid) THEN EFI_GLOBAL_VARIABLE_GUID ELSE v.Guid,
                       !.Attr = IF v.Attr = 0 THEN SecureBootAttr ELSE v.Attr]
        ELSE IF GuidUnset(v.Guid)
        THEN [v EXCEPT !.Guid = EFI_GLOBAL_VARIABLE_GUID,
                       !.Attr = IF v.Attr = 0 THEN EfiVariableDefault ELSE v.Attr]
        ELSE v

----------------------------------------------------------------------------
(* Device paths, boot options and the PXE title                             *)

\* DevicePath.Mac(mac): node 3/11, the address zero-padded to 32 bytes and
\* the interface type 0
MacNode(mac) ==
    <<3, 11>> \o LE16(37) \o [i \in 1..32 |-> IF i <= Len(mac) THEN mac[i] ELSE 0] \o <<0>>

\* DevicePath.IPv4(): node 3/12 with every field zero
IPv4Node == <<3, 12>> \o LE16(27) \o Fill(23, 0)

\* the End-Of-Path node
EndNode == <<127, 255, 4, 0>>

\* (&efi.DevicePath{}).Mac(mac).IPv4(), encoded
PxeDevicePath(mac) == MacNode(mac) \o IPv4Node \o EndNode

\* BootEntry.Bytes()
BootEntryBytes(attr, title, path, optdata) ==
    LE32(attr) \o LE16(Len(path)) \o NameBytes(title) \o path \o optdata

\* pxeOptData = 4eac0881119f594d850ee21a522c59b2
pxeOptData == <<78, 172, 8, 129, 17, 159, 89, 77, 133, 14, 226, 26, 82, 44, 89, 178>>

\* "UEFI PXEv4 (MAC:"
TitlePrefix == <<85, 69, 70, 73, 32, 80, 88, 69, 118, 52, 32, 40, 77, 65, 67, 58>>

\* the bytes of mac as two digits of the table each, separated by colons
RECURSIVE HexColons(_, _)
HexColons(mac, table) ==
    IF mac = <<>> THEN <<>>
    ELSE <<table[(mac[1] \div 16) + 1], table[(mac[1] % 16) + 1]>>
            \o (IF Len(mac) > 1 THEN <<58>> ELSE <<>>) \o HexColons(Tail(mac), table)

\* net.HardwareAddr.String()
MacString(mac) == HexColons(mac, hexLower)

\* strings.ToUpper on the characters of a MAC string
ToUpper(str) == [i \in 1..Len(str) |-> IF str[i] >= 97 /\ str[i] <= 122 THEN str[i] - 32 ELSE str[i]]

\* formatMACTitle
formatMACTitle(mac) ==
    IF Len(mac) # 6 THEN TitlePrefix \o ToUpper(MacString(mac)) \o <<41>>
    ELSE TitlePrefix \o HexColons(mac, hexTable) \o <<41>>

\* SetMacAddress: fmt.Sprintf("UEFI PXEv4 (MAC:%s)", mac.String())
SetMacAddressTitle(mac) == TitlePrefix \o MacString(mac) \o <<41>>

\* &efi.EfiVar{Name, Guid, Attr, Data}: the other fields are zero
Literal(name, attr, bytes) ==
    [Name |-> name, Guid |-> EFI_GLOBAL_VARIABLE_GUID, Attr |-> attr, Data |-> bytes,
     Count |-> 0, Time |-> NoTime, PkIdx |-> 0, DataOff |-> 0 - 1]

\* a BootNext that names entry 0001
bootNextStale == Literal(BootNext, 7, <<1, 0>>)

\* bootNextTemplate
bootNextTemplate == Literal(BootNext, 7, <<153, 0>>)

\* the Boot0099 variable GetFirmwareReader builds for mac
Boot0099Var(mac) ==
    Literal(boot0099Name, 7,
            BootEntryBytes(LOAD_OPTION_ACTIVE, formatMACTitle(mac), PxeDevicePath(mac), pxeOptData))

----------------------------------------------------------------------------
(* SimpleFirmwareManager.GetFirmwareReader (manager/simple_manager.go):     *)
(* NumCalls goroutines call it on the embedded image edk2.RpiEfi.  A map    *)
(* (EfiVarList) is a reference: heap maps references to maps, reference 0   *)
(* being the list GetVarList built for the cache, reference p the           *)
(* requestVarList of call p.                                                *)

Procs == 1..NumCalls

\* the hardware addresses of the requests, one of them not 6 bytes long
Macs == {<<170, 187, 204, 221, 238, 255>>, <<0, 26, 43, 60, 77, 94>>, <<10, 11>>}

\* the images that may be embedded as edk2.RpiEfi
BaseImages == {ImgPxe, ImgPxeFresh, ImgPlain, ImgNone}

\* findNvData run to its end, following at most n iterations
RECURSIVE findNvData(_, _, _)
findNvData(buf, off, n) ==
    IF ~ScanContinues(buf, off) THEN [kind |-> "found", off |-> 0 - 1]
    ELSE IF n = 0 THEN [kind |-> "panic", off |-> off]
    ELSE LET r == FindStep(buf, off) IN
         IF r.kind = "next" THEN findNvData(buf, r.off, n - 1) ELSE r

\* varstore.New(data): the bounds of the store, or the error of the parse
New(buf) ==
    LET f == findNvData(buf, 0, MaxSteps + 1) IN
    IF f.kind = "panic" THEN [err |-> "panic", start |-> 0, end |-> 0]
    ELSE parseVolume(buf, f.off)

\* Edk2VarStore.ReadBytes(varlist): a reader over the serialized image
ReadBytes(buf, c, s, e, l, keys) == bytesVarStore(buf, c, s, e, l, keys)

\* the reference of the cached list
CacheRef == 0

\* the request list is the cached map itself
SameMap(p) == CacheRef

\* requestVarList := make(efi.EfiVarList, len(varList)): a map of its own
NewMap(p) == p

NoCall(m) == [pc |-> "idle", mac |-> m, vl |-> 0 - 1, req |-> 0 - 1, out |-> [st |-> "none", blob |-> <<>>]]

\* the second check left out
NoDoubleCheck == FALSE

\* the check under the write lock: varstoreCache.vs != nil && varstoreCache.varList != nil
DoubleCheck == cached

InitSimple ==
    /\ img \in {IndexOf(d) : d \in BaseImages}
    /\ data = ImageBytes(Images[img])
    /\ cap = Len(data)
    /\ offset = 0
    /\ steps = 0
    /\ start = 0
    /\ end = 0
    /\ perr = "unset"
    /\ varlist = EmptyVarList
    /\ file = data
    /\ res = "none"
    /\ nops = 0
    /\ pc = "simple"
    /\ now = NoTime
    /\ op = NoOp
    /\ ret = NoValue
    /\ heap = <<>>
    /\ cached = FALSE
    /\ stores = 0
    /\ lock = NoLock
    /\ ReaderUnused
    /\ JsonUnused
    /\ ArchUnused
    \* goroutines are interchangeable: the addresses are taken in ascending order
    /\ calls \in {c \in [Procs -> {NoCall(m) : m \in Macs}] :
                     \A p \in Procs : p > 1 => ~StrLess(c[p].mac, c[p - 1].mac)}

SimpleFrame ==
    UNCHANGED <<img, data, cap, offset, steps, varlist, file, res, nops, pc, efivars, othervars>>

\* getOrCreateVarstore: varstoreCache.RLock()
RLock(p) ==
    /\ pc = "simple"
    /\ calls[p].pc = "idle"
    /\ lock.writer = 0
    /\ lock' = [lock EXCEPT !.readers = @ \cup {p}]
    /\ calls' = [calls EXCEPT ![p].pc = "rlocked"]
    /\ UNCHANGED <<heap, cached, stores, start, end, perr>>
    /\ SimpleFrame

\* the check of the cache under the read lock, and RUnlock
CheckCache(p) ==
    /\ pc = "simple"
    /\ calls[p].pc = "rlocked"
    /\ lock' = [lock EXCEPT !.readers = @ \ {p}]
    /\ calls' = IF cached
                THEN [calls EXCEPT ![p].pc = "have", ![p].vl = CacheRef]
                ELSE [calls EXCEPT ![p].pc = "miss"]
    /\ UNCHANGED <<heap, cached, stores, start, end, perr>>
    /\ SimpleFrame

\* varstoreCache.Lock()
Lock(p) ==
    /\ pc = "simple"
    /\ calls[p].pc = "miss"
    /\ lock.writer = 0
    /\ lock.readers = {}
    /\ lock' = [lock EXCEPT !.writer = p]
    /\ calls' = [calls EXCEPT ![p].pc = "wlocked"]
    /\ UNCHANGED <<heap, cached, stores, start, end, perr>>
    /\ SimpleFrame

\* under the write lock: the second check, varstore.New, GetVarList, the
\* assignment of the cache, and the deferred Unlock
FillCache(p) ==
    /\ pc = "simple"
    /\ calls[p].pc = "wlocked"
    /\ lock' = [lock EXCEPT !.writer = 0]
    /\ IF DoubleCheck
       THEN /\ calls' = [calls EXCEPT ![p].pc = "have", ![p].vl = CacheRef]
            /\ UNCHANGED <<heap, cached, stores, start, end, perr>>
       ELSE LET r == New(data)
                l == GetVarList(data, cap, r.start, r.end)
            IN  IF r.err # "none" \/ l.st # "ok"
                THEN /\ calls' = [calls EXCEPT ![p].pc = "done", ![p].out.st = "error"]
                     /\ perr' = r.err
                     /\ UNCHANGED <<heap, cached, stores, start, end>>
                ELSE /\ heap' = Put(heap, CacheRef, l.list)
                     /\ cached' = TRUE
                     /\ stores' = stores + 1
                     /\ start' = r.start
                     /\ end' = r.end
                     /\ perr' = r.err
                     /\ calls' = [calls EXCEPT ![p].pc = "have", ![p].vl = CacheRef]
    /\ SimpleFrame

\* for k, v := range varList { requestVarList[k] = v }
Clone(p) ==
    /\ pc = "simple"
    /\ calls[p].pc = "have"
    /\ heap' = Put(heap, NewMap(p), heap[calls[p].vl])
    /\ calls' = [calls EXCEPT ![p].pc = "cloned", ![p].req = NewMap(p)]
    /\ UNCHANGED <<cached, stores, lock, start, end, perr>>
    /\ SimpleFrame

\* requestVarList["Boot0099"] = &efi.EfiVar{...}; requestVarList["BootNext"] = bootNextTemplate
InsertPxe(p) ==
    /\ pc = "simple"
    /\ calls[p].pc = "cloned"
    /\ LET r == calls[p].req IN
       heap' = [heap EXCEPT ![r] = Put(Put(heap[r], boot0099Name, Boot0099Var(calls[p].mac)),
                                       BootNext, bootNextTemplate)]
    /\ calls' = [calls EXCEPT ![p].pc = "built"]
    /\ UNCHANGED <<cached, stores, lock, start, end, perr>>
    /\ SimpleFrame

\* return vs.ReadBytes(requestVarList)
Serve(p) ==
    /\ pc = "simple"
    /\ calls[p].pc = "built"
    /\ \E keys \in KeyOrders(heap[calls[p].req]) :
         LET r == ReadBytes(data, cap, start, end, heap[calls[p].req], keys) IN
         calls' = [calls EXCEPT ![p].pc = "done", ![p].out = r]
    /\ UNCHANGED <<heap, cached, stores, lock, start, end, perr>>
    /\ SimpleFrame

NextSimple ==
    \/ \E p \in Procs : RLock(p)
    \/ \E p \in Procs : CheckCache(p)
    \/ \E p \in Procs : Lock(p)
    \/ \E p \in Procs : FillCache(p)
    \/ \E p \in Procs : Clone(p)
    \/ \E p \in Procs : InsertPxe(p)
    \/ \E p \in Procs : Serve(p)

SpecSimple == InitSimple /\ [][NextSimple]_vars

----------------------------------------------------------------------------
(* Properties of GetFirmwareReader                                          *)

\* the title of the PXE option: uppercase hex, colon-separated
PxeTitle(mac) == TitlePrefix \o HexColons(mac, hexTable) \o <<41>>

\* the boot option of the claim: attr 0x1, the title, MAC(m,0)/IPv4(), the marker
PxeOption(mac) ==
    LE32(1) \o LE16(Len(PxeDevicePath(mac))) \o NameBytes(PxeTitle(mac))
        \o PxeDevicePath(mac) \o pxeOptData

Done(p) == calls[p].pc = "done" /\ calls[p].out.st = "ok"

\* the collection an output image holds
Served(p) == GetVarList(calls[p].out.blob, Len(calls[p].out.blob), start, end)

\* C11: every image GetFirmwareReader(m) serves holds exactly one Boot0099
\* record, with the global GUID, attr 7 and the PXE boot option of m as data,
\* and exactly one BootNext record with the same GUID and attr and data
\* 99 00, whatever the base image held under these names; two calls with the
\* same m serve byte-identical images, whatever other calls ran meanwhile.
C11_PxeRecords ==
    \A p \in Procs : Done(p) =>
        /\ Served(p).st = "ok"
        /\ OnlyRecordsThenFree(calls[p].out.blob, start, end, Served(p).list)
        /\ {boot0099Name, BootNext} \subseteq DOMAIN Served(p).list
        /\ LET b == Served(p).list[boot0099Name]
               n == Served(p).list[BootNext]
           IN  /\ b.Guid = EFI_GLOBAL_VARIABLE_GUID
               /\ b.Attr = 7
               /\ b.Data = PxeOption(calls[p].mac)
               /\ n.Guid = EFI_GLOBAL_VARIABLE_GUID
               /\ n.Attr = 7
               /\ n.Data = <<153, 0>>
        /\ \A q \in Procs : (Done(q) /\ calls[q].mac = calls[p].mac) => calls[q].out = calls[p].out

\* C11 witness: on the base image that already holds Boot0099 and BootNext,
\* two calls for one address and a call for another address have all served
C11_Witness ==
    /\ pc = "simple"
    /\ Images[img] = ImgPxe
    /\ \A p \in Procs : Done(p)
    /\ \E p, q, r \in Procs :
         /\ p # q
         /\ calls[p].mac = calls[q].mac
         /\ calls[r].mac # calls[p].mac
         /\ Len(calls[p].mac) = 6

----------------------------------------------------------------------------
(* Calls on the variable collection of a loaded manager: the methods of     *)
(* EfiVarList and EfiVar (efi/efivarlist.go) and of EDK2Manager             *)
(* (manager/edk2_manager.go) on m.varList.                                  *)

\* the stores the manager is loaded from
EfiImages == {ImgBoot, ImgOdd, ImgPlain}

\* what time.Now().UTC() may return: the wall clock is not monotonic
ClockEarly == [year |-> 2023, month |-> 12, day |-> 31, hour |-> 23, minute |-> 59, second |-> 59, nsec |-> 0]

Clock == {ClockEarly, GoTime(123456789)}

\* iterations findNvData takes before it returns
RECURSIVE ScanCount(_, _, _)
ScanCount(buf, off, n) ==
    IF ~ScanContinues(buf, off) \/ n = 0 THEN 0
    ELSE LET r == FindStep(buf, off) IN
         IF r.kind = "next" THEN 1 + ScanCount(buf, r.off, n - 1) ELSE 1

\* the manager as NewEDK2Manager leaves it
InitEfi ==
    /\ img \in {IndexOf(d) : d \in EfiImages}
    /\ data = ImageBytes(Images[img])
    /\ cap \in Len(data)..(Len(data) + MaxSlack)
    /\ offset = findNvData(data, 0, MaxSteps).off
    /\ steps = ScanCount(data, 0, MaxSteps)
    /\ perr = parseVolume(data, offset).err
    /\ start = parseVolume(data, offset).start
    /\ end = parseVolume(data, offset).end
    /\ varlist = GetVarList(data, cap, start, end).list
    /\ file = data
    /\ res = "loaded"
    /\ nops = 0
    /\ pc = "ready"
    /\ now = NoTime
    /\ op = NoOp
    /\ ret = NoValue
    /\ heap = <<>>
    /\ cached = FALSE
    /\ stores = 0
    /\ lock = NoLock
    /\ ReaderUnused
    /\ JsonUnused
    /\ ArchUnused
    /\ calls = <<>>

Ok(val) == [err |-> "none", val |-> val]

Err(kind) == [err |-> kind, val |-> <<>>]

\* a call made when the wall clock shows t: the list and the value it leaves
Call(name, key, arg, l, r, t) ==
    /\ pc = "ready"
    /\ nops < MaxCalls
    /\ nops' = nops + 1
    /\ op' = [name |-> name, key |-> key, arg |-> arg]
    /\ varlist' = l
    /\ ret' = r
    /\ now' = t
    /\ UNCHANGED <<img, cap, offset, steps, start, end, perr, file, res, pc, simvars, othervars>>

\* v, ok := l[name]; if !ok { v, err = l.Create(name) }
GetOrCreate(l, name) ==
    IF name \in DOMAIN l THEN l ELSE Put(l, name, NewEfiVar(name, <<>>, 0, <<>>, 0))

\* EfiVarList.Create
Create(name) ==
    /\ Call("Create", name, <<>>, Put(varlist, name, NewEfiVar(name, <<>>, 0, <<>>, 0)),
            Ok(<<>>), now)
    /\ UNCHANGED data

\* l.Add(v) for v, _ := NewEfiVar(name, guid, attr, data, 0)
Add(name, guid, attr) ==
    /\ Call("Add", name, guid \o <<attr>>,
            IF name \in DOMAIN varlist THEN varlist
            ELSE Put(varlist, name, NewEfiVar(name, guid, attr, <<1>>, 0)),
            IF name \in DOMAIN varlist THEN Err("exists") ELSE Ok(<<>>), now)
    /\ UNCHANGED data

\* EfiVarList.Delete: it returns nothing
Delete(name) ==
    /\ Call("Delete", name, <<>>,
            IF name \in DOMAIN varlist THEN Remove(varlist, name) ELSE varlist,
            Ok(<<>>), now)
    /\ UNCHANGED data

\* EfiVarList.SetBool
SetBool(name, value, t) ==
    LET l == GetOrCreate(varlist, name) IN
    /\ Call("SetBool", name, IF value THEN <<1>> ELSE <<0>>,
            Put(l, name, EfiVarSetBool(l[name], value, t)), Ok(<<>>), t)
    /\ UNCHANGED data

\* EfiVarList.SetUint32
SetUint32(name, value, t) ==
    LET l == GetOrCreate(varlist, name) IN
    /\ Call("SetUint32", name, <<value>>,
            Put(l, name, EfiVarSetUint32(l[name], value, t)), Ok(<<>>), t)
    /\ UNCHANGED data

\* EfiVarList.SetFromFile: os.ReadFile returns the content or fails
SetFromFile(name, f, t) ==
    LET l == GetOrCreate(varlist, name) IN
    /\ IF f.ok
       THEN Call("SetFromFile", name, f.content,
                 Put(l, name, EfiVarSetFromFile(l[name], f.content, t)), Ok(<<>>), t)
       ELSE Call("SetFromFile", name, <<>>, l, Err("file"), t)
    /\ UNCHANGED data

\* v.SetString(value) on the variable of that name
SetString(name, value, t) ==
    /\ name \in DOMAIN varlist
    /\ Call("SetString", name, value,
            Put(varlist, name, EfiVarSetString(varlist[name], value, t)), Ok(<<>>), t)
    /\ UNCHANGED data

\* v.SetHexString(value) on the variable of that name
SetHexString(name, value, t) ==
    /\ name \in DOMAIN varlist
    /\ Call("SetHexString", name, value,
            Put(varlist, name, EfiVarSetHexString(varlist[name], value, t)),
            IF HexDecode(value).err = "none" THEN Ok(<<>>) ELSE Err("hex"), t)
    /\ UNCHANGED data

\* v.GetUint32() on the variable of that name
GetUint32(name) ==
    /\ name \in DOMAIN varlist
    /\ Call("GetUint32", name, <<>>, varlist, EfiVarGetUint32(varlist[name]), now)
    /\ UNCHANGED data

\* a device path handed over as text: whether it holds a "(", whether
\* ParseDevicePathFromString accepts it, and the bytes of the encoded path
PathPxe == [paren |-> TRUE, ok |-> TRUE, bytes |-> PxeDevicePath(<<0, 26, 43, 60, 77, 94>>)]
\* a node ParseDevicePathFromString does not know
PathUnknown == [paren |-> TRUE, ok |-> FALSE, bytes |-> <<>>]
\* no "(": the text is taken as the bytes of a path, here a bare End-Of-Path node
PathRaw == [paren |-> FALSE, ok |-> TRUE, bytes |-> EndNode]

Paths == {PathPxe, PathUnknown, PathRaw}

\* "PXE"
TitlePxe == <<80, 88, 69>>

\* EfiVar.SetBootEntry: the variable it leaves and its error
EfiVarSetBootEntry(v, attr, title, path, optdata, t) ==
    IF path.paren /\ ~path.ok THEN [err |-> "devpath", v |-> v]
    ELSE [err |-> "none",
          v |-> updateTime(WithData(v, BootEntryBytes(attr, title, path.bytes, optdata)), t)]

\* EfiVarList.SetBootEntry on the list l
ListSetBootEntry(l, index, title, path, optdata, t) ==
    LET c == GetOrCreate(l, BootName(index))
        r == EfiVarSetBootEntry(c[BootName(index)], LOAD_OPTION_ACTIVE, title, path, optdata, t)
    IN  [err |-> r.err, list |-> Put(c, BootName(index), r.v)]

\* EfiVarList.SetBootEntry
SetBootEntry(index, title, path, optdata, t) ==
    LET r == ListSetBootEntry(varlist, index, title, path, optdata, t) IN
    /\ Call("SetBootEntry", BootName(index), <<index>>, r.list,
            IF r.err = "none" THEN Ok(<<>>) ELSE Err(r.err), t)
    /\ UNCHANGED data

\* the first index whose Boot#### name is free; a list of n variables leaves
\* one of the first n + 1 indices free
FirstFree(l) ==
    CHOOSE i \in 0..Cardinality(DOMAIN l) :
        /\ BootName(i) \notin DOMAIN l
        /\ \A j \in 0..(i - 1) : BootName(j) \in DOMAIN l

\* EfiVarList.AddBootEntry
AddBootEntry(title, path, optdata, t) ==
    LET i == FirstFree(varlist)
        r == ListSetBootEntry(varlist, i, title, path, optdata, t)
    IN  /\ Call("AddBootEntry", BootName(i), <<i>>, r.list,
                IF r.err = "none" THEN Ok(<<i>>) ELSE Err(r.err), t)
        /\ UNCHANGED data

\* EfiVarList.GetBootNext
GetBootNext ==
    /\ Call("GetBootNext", BootNext, <<>>, varlist,
            IF BootNext \in DOMAIN varlist THEN EfiVarGetBootNext(varlist[BootNext])
            ELSE Err("notfound"), now)
    /\ UNCHANGED data

\* EfiVarList.SetBootNext
SetBootNext(index, t) ==
    LET l == GetOrCreate(varlist, BootNext) IN
    /\ Call("SetBootNext", BootNext, <<index>>,
            Put(l, BootNext, EfiVarSetBootNext(l[BootNext], index, t)), Ok(<<>>), t)
    /\ UNCHANGED data

\* EfiVarList.GetBootOrder
GetBootOrder ==
    /\ Call("GetBootOrder", BootOrder, <<>>, varlist,
            IF BootOrder \in DOMAIN varlist THEN EfiVarGetBootOrder(varlist[BootOrder])
            ELSE Err("notfound"), now)
    /\ UNCHANGED data

\* EfiVarList.SetBootOrder
SetBootOrder(order, t) ==
    LET l == GetOrCreate(varlist, BootOrder) IN
    /\ Call("SetBootOrder", BootOrder, order,
            Put(l, BootOrder, EfiVarSetBootOrder(l[BootOrder], order, t)), Ok(<<>>), t)
    /\ UNCHANGED data

\* append(v.Data, buf...) writes in place when the slice has room: the data
\* of a parsed variable is vs.data[lo:hi], whose capacity reaches to cap(vs.data)
HasRoom(v, c, n) == v.DataOff >= 0 /\ v.DataOff + Len(v.Data) + n <= c

\* buf with bytes written at pos, as far as buf reaches
Poke(buf, pos, bytes) ==
    [i \in 1..Len(buf) |-> IF i - 1 >= pos /\ i - 1 < pos + Len(bytes)
                           THEN bytes[i - pos] ELSE buf[i]]

\* EfiVar.AppendBootOrder
EfiVarAppendBootOrder(v, index, t, c) ==
    updateTime([v EXCEPT !.Data = v.Data \o LE16(index),
                         !.DataOff = IF HasRoom(v, c, 2) THEN v.DataOff ELSE 0 - 1], t)

\* EfiVarList.AppendBootOrder.  (In a well-formed store the two bytes after
\* the data of a record belong to no other variable's data.)
AppendBootOrder(index, t) ==
    LET l == GetOrCreate(varlist, BootOrder)
        v == l[BootOrder]
    IN  /\ Call("AppendBootOrder", BootOrder, <<index>>,
                Put(l, BootOrder, EfiVarAppendBootOrder(v, index, t, cap)), Ok(<<>>), t)
        /\ data' = IF HasRoom(v, cap, 2)
                   THEN Poke(data, v.DataOff + Len(v.Data), LE16(index)) ELSE data

\* EDK2Manager.GetVariable: the data of the variable stands for the pointer
GetVariable(name) ==
    /\ Call("GetVariable", name, <<>>, varlist,
            IF name \in DOMAIN varlist THEN Ok(varlist[name].Data) ELSE Err("notfound"), now)
    /\ UNCHANGED data

\* EDK2Manager.GetBootNext
ManagerGetBootNext ==
    /\ Call("ManagerGetBootNext", BootNext, <<>>, varlist,
            IF BootNext \in DOMAIN varlist THEN EfiVarGetBootNext(varlist[BootNext])
            ELSE Ok(<<0>>), now)
    /\ UNCHANGED data

\* fmt.Sprintf("%04X", id)
Hex4(id) == SubSeq(BootName(id), 5, 8)

\* EDK2Manager.GetBootOrder
ManagerGetBootOrder ==
    /\ Call("ManagerGetBootOrder", BootOrder, <<>>, varlist,
            IF BootOrder \in DOMAIN varlist
            THEN LET r == EfiVarGetBootOrder(varlist[BootOrder])
                 IN  Ok([i \in 1..Len(r.val) |-> Hex4(r.val[i])])
            ELSE Ok(<<>>), now)
    /\ UNCHANGED data

\* EDK2Manager.SetMacAddress
SetMacAddress(mac) ==
    /\ Call("SetMacAddress", boot0099Name, mac,
            Put(Put(varlist, boot0099Name,
                    Literal(boot0099Name, 7,
                            BootEntryBytes(LOAD_OPTION_ACTIVE, SetMacAddressTitle(mac),
                                           PxeDevicePath(mac), pxeOptData))),
                BootNext, Literal(BootNext, 7, <<153, 0>>)),
            Ok(<<>>), now)
    /\ UNCHANGED data

\* the names, values and files of the calls
VarNames == {nA, nAB}
CreateNames == {BootName(1), SecureBoot, nA, BootOrder}
FileOk == [ok |-> TRUE, content |-> <<4, 5, 6>>]
FileMissing == [ok |-> FALSE, content |-> <<>>]
\* "0aFF" and "zz"
HexStrings == {<<48, 97, 70, 70>>, <<122, 122>>}
\* "" and "a"
Strings == {<<>>, <<97>>}
Orders == {<<>>, <<153, 0>>, <<4660>>}
\* a GUID handed to NewEfiVar: none, or the NvData GUID
GivenGuids == {<<>>, NvData}

NextEfi ==
    \/ \E name \in CreateNames : Create(name)
    \/ \E name \in {BootName(1), SecureBoot, nA}, guid \in GivenGuids, attr \in {0, 39} :
          Add(name, guid, attr)
    \/ \E name \in {nA, BootNext} : Delete(name)
    \/ \E name \in VarNames, value \in BOOLEAN, t \in Clock : SetBool(name, value, t)
    \/ \E name \in VarNames, t \in Clock : SetUint32(name, 305419896, t)
    \/ \E name \in VarNames, f \in {FileOk, FileMissing}, t \in Clock : SetFromFile(name, f, t)
    \/ \E name \in VarNames, value \in Strings, t \in Clock : SetString(name, value, t)
    \/ \E name \in VarNames, value \in HexStrings, t \in Clock : SetHexString(name, value, t)
    \/ \E name \in VarNames \cup {BootOrder} : GetUint32(name)
    \/ \E path \in Paths, t \in Clock : SetBootEntry(1, TitlePxe, path, <<>>, t)
    \/ \E path \in Paths, t \in Clock : AddBootEntry(TitlePxe, path, <<7>>, t)
    \/ GetBootNext
    \/ \E index \in {153, 4660}, t \in Clock : SetBootNext(index, t)
    \/ GetBootOrder
    \/ \E order \in Orders, t \in Clock : SetBootOrder(order, t)
    \/ \E t \in Clock : AppendBootOrder(2, t)
    \/ \E name \in VarNames : GetVariable(name)
    \/ \E name \in DeleteNames : DeleteVariable(name)
    \/ ManagerGetBootNext
    \/ ManagerGetBootOrder
    \/ \E mac \in Macs : SetMacAddress(mac)
    \/ RevertChanges

SpecEfi == InitEfi /\ [][NextEfi]_vars

----------------------------------------------------------------------------
(* Properties of the variable model                                         *)

\* an uppercase hex digit
IsUpperHex(ch) == (ch >= 48 /\ ch <= 57) \/ (ch >= 65 /\ ch <= 70)

\* title is "UEFI PXEv4 (MAC:XX:XX:XX:XX:XX:XX)" for the six bytes of mac
IsPxeTitleOf(title, mac) ==
    /\ Len(title) = 34
    /\ SubSeq(title, 1, 16) = TitlePrefix
    /\ title[34] = 41
    /\ \A i \in 1..6 :
         LET hi == title[16 + 3 * (i - 1) + 1]
             lo == title[16 + 3 * (i - 1) + 2]
         IN  /\ IsUpperHex(hi)
             /\ IsUpperHex(lo)
             /\ 16 * HexVal(hi) + HexVal(lo) = mac[i]
             /\ i < 6 => title[16 + 3 * i] = 58

\* the title of the boot option held by a Boot0099 variable
TitleOf(v) == FromUCS16(v.Data, 6)

\* C12 (formatMACTitle alone): a 6-byte address gives the uppercase title, any
\* other length the fallback rendering, in every image GetFirmwareReader serves
C12_ViaFormatMACTitle ==
    \A p \in Procs : Done(p) =>
        LET title == TitleOf(Served(p).list[boot0099Name])
            mac == calls[p].mac
        IN  IF Len(mac) = 6 THEN IsPxeTitleOf(title, mac)
            ELSE title = TitlePrefix \o ToUpper(MacString(mac)) \o <<41>>

\* C12: on every PXE synthesizer path a 6-byte address is titled
\* "UEFI PXEv4 (MAC:XX:XX:XX:XX:XX:XX)", two uppercase hex digits per byte
\* separated by colons, and an address of another length gets the fallback
\* rendering: by formatMACTitle, and in the Boot0099 that SetMacAddress sets.
C12_PxeTitle ==
    /\ \A mac \in Macs :
         IF Len(mac) = 6 THEN IsPxeTitleOf(formatMACTitle(mac), mac)
         ELSE formatMACTitle(mac) = TitlePrefix \o ToUpper(MacString(mac)) \o <<41>>
    /\ (op.name = "SetMacAddress" /\ Len(op.arg) = 6) =>
         IsPxeTitleOf(TitleOf(varlist[boot0099Name]), op.arg)

\* the later of two times, NoTime being earlier than every time
MaxTime(t, u) == IF u = NoTime THEN t ELSE IF t = NoTime THEN u ELSE IF Before(u, t) THEN t ELSE u

AuthBit(v) == HasBit(v.Attr, EfiVariableTimeBasedAuthenticatedWriteAccess)

\* the setters of EfiVar that change the data
Setters ==
    {"SetBool", "SetString", "SetHexString", "SetUint32", "SetBootEntry", "AddBootEntry",
     "SetBootNext", "SetBootOrder", "AppendBootOrder", "SetFromFile"}

\* a step in which one of the setters named in S has set the data of a variable
SetterStep(S) == pc = "ready" /\ op'.name \in S /\ ret'.err = "none" /\ nops' = nops + 1

\* the time the variable of that name had before the step (none if the
\* step created it)
TimeBefore(name) == IF name \in DOMAIN varlist THEN varlist[name].Time ELSE NoTime

\* after a step of a setter in S the variable it set has the time the
\* time-update rule asks for
TimeRule(S) ==
    SetterStep(S) =>
        LET v == varlist'[op'.key] IN
        /\ AuthBit(v) => v.Time = MaxTime(now', TimeBefore(op'.key))
        /\ ~AuthBit(v) => v.Time = TimeBefore(op'.key)

\* C13: every data-mutating setter of EfiVar leaves a variable that has the
\* time-based-auth bit with time = max(current time, previous time), so the
\* time never moves backward, and leaves the time of a variable without the
\* bit as it was.
C13_TimeUpdate == [][TimeRule(Setters)]_vars

\* C13 for all the setters but SetHexString
C13_ButSetHexString == [][TimeRule(Setters \ {"SetHexString"})]_vars

TimeIffAuthBit(l) == \A k \in DOMAIN l : (l[k].Time # NoTime) <=> AuthBit(l[k])

\* C14: in every variable of the collection of a loaded manager, as the
\* parser built it and after any calls, the time is present exactly when attr
\* has the time-based-auth bit.
C14_TimeIffAuthBit == pc = "ready" => TimeIffAuthBit(varlist)

\* a step of one of the calls named in S
CallStep(S) == pc = "ready" /\ op'.name \in S /\ nops' = nops + 1

\* GetUint32 and GetBootNext fail on data that is too short, and a getter
\* that fails leaves the variable alone
ShortDataFails ==
    /\ (CallStep({"GetUint32"}) /\ Len(varlist[op'.key].Data) < 4) =>
          (ret'.err # "none" /\ varlist' = varlist)
    /\ (CallStep({"GetBootNext", "ManagerGetBootNext"}) /\ BootNext \in DOMAIN varlist
          /\ Len(varlist[BootNext].Data) < 2) =>
          (ret'.err # "none" /\ varlist' = varlist)

\* GetBootOrder fails on data of odd length and leaves the variable alone
OddLengthFails ==
    (CallStep({"GetBootOrder", "ManagerGetBootOrder"}) /\ BootOrder \in DOMAIN varlist
       /\ Len(varlist[BootOrder].Data) % 2 = 1) =>
       (ret'.err # "none" /\ varlist' = varlist)

\* C15: a typed getter fails instead of returning a value when the data has
\* the wrong size - GetUint32 below 4 bytes, GetBootNext below 2 bytes,
\* GetBootOrder on an odd number of bytes - and the variable is unchanged.
C15_GettersFail == [][ShortDataFails /\ OddLengthFails]_vars

\* C15 for GetUint32 and GetBootNext
C15_ShortData == [][ShortDataFails]_vars

\* the 2-byte little-endian encodings of the indices of L, one after the other
LittleEndianList(L) ==
    [i \in 1..(2 * Len(L)) |-> IF i % 2 = 1 THEN L[(i + 1) \div 2] % 256
                               ELSE L[i \div 2] \div 256]

\* the boot order a list holds, the empty order if it has no BootOrder
OrderOf(l) == IF BootOrder \in DOMAIN l THEN EfiVarGetBootOrder(l[BootOrder]).val ELSE <<>>

EvenOrder(l) == BootOrder \in DOMAIN l => Len(l[BootOrder].Data) % 2 = 0

\* C16: after SetBootOrder(L) the data of BootOrder is the little-endian
\* encoding of L and GetBootOrder returns L; after SetBootNext(i)
\* GetBootNext returns i; after AppendBootOrder(i) on a boot order of even
\* length GetBootOrder returns the previous list followed by i; each of them
\* whether or not the variable existed before.
C16_BootListRoundTrip ==
    [][/\ CallStep({"SetBootOrder"}) =>
            /\ varlist'[BootOrder].Data = LittleEndianList(op'.arg)
            /\ EfiVarGetBootOrder(varlist'[BootOrder]) = Ok(op'.arg)
       /\ CallStep({"SetBootNext"}) => EfiVarGetBootNext(varlist'[BootNext]) = Ok(op'.arg)
       /\ (CallStep({"AppendBootOrder"}) /\ EvenOrder(varlist)) =>
            EfiVarGetBootOrder(varlist'[BootOrder]) = Ok(OrderOf(varlist) \o op'.arg)]_vars

\* C16 witness: on a store without BootOrder, SetBootOrder([0x0099, 0x0000])
\* and then AppendBootOrder(2) have left the order 0099, 0000, 0002
C16_Witness ==
    /\ pc = "ready"
    /\ Images[img] = ImgPlain
    /\ op.name = "AppendBootOrder"
    /\ BootOrder \in DOMAIN varlist
    /\ varlist[BootOrder].Data = <<153, 0, 0, 0, 2, 0>>

\* the variable Create(name) leaves has the defaults of its name
DefaultsByName ==
    CallStep({"Create"}) =>
        LET v == varlist'[op'.key] IN
        /\ v.Guid = EFI_GLOBAL_VARIABLE_GUID
        /\ v.Attr = IF HasPrefix(op'.key, nBoot) THEN 7
                    ELSE IF op'.key = SecureBoot THEN 6
                    ELSE 3

\* a GUID or an attr other than 0 handed to NewEfiVar is the one the new
\* variable has (op.arg holds the GUID, if any, and then the attr)
GivenValuesKept ==
    (CallStep({"Add"}) /\ ret'.err = "none") =>
        LET v == varlist'[op'.key]
            n == Len(op'.arg)
        IN  /\ n = 17 => v.Guid = SubSeq(op'.arg, 1, 16)
            /\ op'.arg[n] # 0 => v.Attr = op'.arg[n]

\* C17: a variable created without explicit values gets the global GUID and
\* attr 7 when its name starts with "Boot", attr 6 when it is SecureBoot and
\* attr 3 for every other name; a GUID or non-zero attr the caller supplies
\* is never replaced by a default.
C17_Defaults == [][DefaultsByName /\ GivenValuesKept]_vars

\* C17 for the variables created without explicit values
C17_CreatedDefaults == [][DefaultsByName]_vars

\* a call named in S on a name the collection does not hold reports that the
\* variable was not found and leaves the collection as it was
AbsentReported(S) ==
    (CallStep(S) /\ op'.key \notin DOMAIN varlist) =>
        (ret'.err = "notfound" /\ varlist' = varlist)

\* C18: reading or deleting a name that is absent from the collection is
\* reported as VariableNotFound and changes nothing, by EfiVarList.Delete,
\* GetBootNext and GetBootOrder and by EDK2Manager.GetVariable,
\* DeleteVariable, GetBootNext and GetBootOrder.
C18_AbsentReported ==
    [][AbsentReported({"Delete", "GetBootNext", "GetBootOrder", "GetVariable",
                       "DeleteVariable", "ManagerGetBootNext", "ManagerGetBootOrder"})]_vars

\* C18 for the calls that do report it
C18_ReportedByFour ==
    [][AbsentReported({"GetBootNext", "GetBootOrder", "GetVariable", "DeleteVariable"})]_vars

\* a call named in S that returns an error leaves the collection as it was
FailureKeepsList(S) ==
    (CallStep(S) /\ ret'.err # "none") => varlist' = varlist

\* C19: when EfiVarList.SetBootEntry or EfiVarList.AddBootEntry returns an
\* error, the collection is exactly as it was before the call: no Boot####
\* name was added and no variable's data, attr or time changed.
C19_FailureKeepsList ==
    [][FailureKeepsList({"SetBootEntry", "AddBootEntry"})]_vars

\* C19 for a failing SetBootEntry on a Boot#### variable the collection
\* already holds: the variable is left as it was
C19_ExistingEntryKept ==
    [][(CallStep({"SetBootEntry"}) /\ ret'.err # "none" /\ op'.key \in DOMAIN varlist)
           => varlist' = varlist]_vars

----------------------------------------------------------------------------
(* The cache of GetFirmwareReader                                           *)

\* the base image as the manager was given it
BaseImage == ImageBytes(Images[img])

\* the list parsed from the base image
FreshList ==
    LET r == New(BaseImage) IN GetVarList(BaseImage, Len(BaseImage), r.start, r.end).list

\* the output of GetFirmwareReader(mac) executed alone on a freshly parsed
\* image, for the order keys of the map iteration
Alone(mac, keys) ==
    LET r == New(BaseImage) IN
    ReadBytes(BaseImage, Len(BaseImage), r.start, r.end,
              Put(Put(FreshList, boot0099Name, Boot0099Var(mac)), BootNext, bootNextTemplate),
              keys)

\* C20: GetFirmwareReader never modifies the cached parsed list: in every
\* interleaving of concurrent calls the cached list equals the list parsed
\* from the base image, the base image is untouched, and the output of each
\* call is an output of the same call executed alone on a freshly parsed
\* image.
C20_CacheUntouched ==
    pc = "simple" =>
        /\ data = BaseImage
        /\ cached => heap[CacheRef] = FreshList
        /\ \A p \in Procs : Done(p) =>
             \E keys \in KeyOrders(Put(Put(FreshList, boot0099Name, Boot0099Var(calls[p].mac)),
                                       BootNext, bootNextTemplate)) :
                 calls[p].out = Alone(calls[p].mac, keys)

\* C20 witness: calls for two different addresses have both served from the
\* cache of a base image that holds a Boot0099 and a BootNext of its own,
\* after the call that filled the cache, and the cache still holds them
C20_Witness ==
    /\ pc = "simple"
    /\ cached
    /\ Images[img] = ImgPxe
    /\ heap[CacheRef][boot0099Name].Data = <<1, 2, 3>>
    /\ heap[CacheRef][BootNext].Data = <<1, 0>>
    /\ \E p, q \in Procs :
         /\ Done(p)
         /\ Done(q)
         /\ calls[p].mac # calls[q].mac
         /\ calls[p].out # calls[q].out

\* the calls that have received a varstore and list from getOrCreateVarstore
Holders == {p \in Procs : calls[p].pc \in {"have", "cloned", "built"} \/ Done(p)}

\* the calls whose getOrCreateVarstore returned an error
Failed == {p \in Procs : calls[p].pc = "done" /\ calls[p].out.st = "error"}

\* C21: getOrCreateVarstore hands every caller the one cached instance: under
\* any interleaving of concurrent first calls at most one call parses the
\* base image and stores it, every caller that got a list got the cached
\* one, the cache is never stored again once set, and a failed parse stores
\* nothing.
C21_OneInstance ==
    pc = "simple" =>
        /\ stores <= 1
        /\ cached <=> stores = 1
        /\ \A p \in Holders : cached /\ calls[p].vl = CacheRef
        /\ Failed # {} => (~cached /\ CacheRef \notin DOMAIN heap)

\* C21 witness: a call that missed the empty cache under the read lock holds
\* the write lock after another call has filled the cache
C21_Witness ==
    /\ pc = "simple"
    /\ cached
    /\ stores = 1
    /\ \E p \in Procs : calls[p].pc = "wlocked"

----------------------------------------------------------------------------
(* The base reader: optimizedFirmwareReader over the embedded image         *)
(* (manager/simple_manager.go), as GetBaseReader and GetBaseReadSeeker      *)
(* return it.                                                               *)

\* the images that may be embedded as edk2.RpiEfi
ReaderImages == {ImgTiny}

\* fr.size = int64(len(edk2.RpiEfi))
size == Len(data)

\* the sum of two int64 with the carry left out
NoWrap64(x) == x

\* an int64 sum: it wraps around
Wrap64(x) == ((x + MaxInt64 + 1) % (2 * (MaxInt64 + 1))) - (MaxInt64 + 1)

\* the length of the array the unsafe view of fr.data is cast to
ViewLen == 1073741824

SeekStart == 0
SeekCurrent == 1
SeekEnd == 2

\* len(p) of the buffers handed to Read
BufSizes == {1, 3, 16, size, size + 1}

\* the offsets and whence values handed to Seek
Offsets == {0 - MaxInt64 - 1, 0 - size - 1, 0 - size, 0 - 7, 0 - 1, 0, 1, 7, size, size + 1, MaxInt64}

Whences == {SeekStart, SeekCurrent, SeekEnd, 3}

InitReader ==
    /\ img \in {IndexOf(d) : d \in ReaderImages}
    /\ data = ImageBytes(Images[img])
    /\ cap = Len(data)
    /\ offset = 0
    /\ steps = 0
    /\ start = 0
    /\ end = 0
    /\ perr = "unset"
    /\ varlist = EmptyVarList
    /\ file = data
    /\ res = "none"
    /\ nops = 0
    /\ pc = "reader"
    /\ now = NoTime
    /\ op = NoOp
    /\ ret = NoValue
    /\ heap = <<>>
    /\ cached = FALSE
    /\ stores = 0
    /\ lock = NoLock
    /\ calls = <<>>
    /\ ReaderUnused
    /\ JsonUnused
    /\ ArchUnused

ReaderFrame ==
    UNCHANGED <<img, data, cap, offset, steps, start, end, perr, varlist, file, res, nops, pc,
                efivars, simvars, jsonvars, archvars>>

\* the test with > for >=
PastEnd == frpos > size

\* if fr.pos >= fr.size
AtEnd == frpos >= size

\* optimizedFirmwareReader.Read(p) with len(p) = len
Read(len) ==
    /\ pc = "reader"
    /\ IF AtEnd
       THEN /\ rd' = [name |-> "Read", arg |-> <<len>>, n |-> 0, err |-> "EOF", bytes |-> <<>>]
            /\ UNCHANGED <<frpos, got>>
       ELSE LET available == size - frpos
                n == IF len > available THEN available ELSE len
            IN  IF n > ViewLen
                THEN /\ rd' = [name |-> "Read", arg |-> <<len>>, n |-> 0, err |-> "panic",
                               bytes |-> <<>>]
                     /\ UNCHANGED <<frpos, got>>
                ELSE /\ rd' = [name |-> "Read", arg |-> <<len>>, n |-> n, err |-> "none",
                               bytes |-> Slice(data, frpos, frpos + n)]
                     /\ frpos' = Wrap64(frpos + n)
                     /\ got' = [got EXCEPT !.bytes = @ \o Slice(data, frpos, frpos + n)]
    /\ ReaderFrame

\* optimizedFirmwareReader.Seek(off, whence)
Seek(off, whence) ==
    /\ pc = "reader"
    /\ LET known == whence \in {SeekStart, SeekCurrent, SeekEnd}
           newPos == IF whence = SeekStart THEN off
                     ELSE IF whence = SeekCurrent THEN Wrap64(frpos + off)
                     ELSE Wrap64(size + off)
           clamped == IF newPos > size THEN size ELSE newPos
       IN  IF ~known
           THEN /\ rd' = [name |-> "Seek", arg |-> <<off, whence>>, n |-> 0, err |-> "whence",
                          bytes |-> <<>>]
                /\ UNCHANGED <<frpos, got>>
           ELSE IF newPos < 0
           THEN /\ rd' = [name |-> "Seek", arg |-> <<off, whence>>, n |-> 0, err |-> "negative",
                          bytes |-> <<>>]
                /\ UNCHANGED <<frpos, got>>
           ELSE /\ rd' = [name |-> "Seek", arg |-> <<off, whence>>, n |-> clamped, err |-> "none",
                          bytes |-> <<>>]
                /\ frpos' = clamped
                /\ got' = NoneFrom(clamped)
    /\ ReaderFrame

NextReader ==
    \/ \E len \in BufSizes : Read(len)
    \/ \E off \in Offsets, whence \in Whences : Seek(off, whence)

SpecReader == InitReader /\ [][NextReader]_vars

----------------------------------------------------------------------------
(* Properties of the base reader                                            *)

\* a step that is a call of Read
ReadStep == pc = "reader" /\ rd'.name = "Read" /\ <<frpos, got, rd>>' # <<frpos, got, rd>>

\* what Read returns and how it moves the position
ReadRule ==
    /\ (rd'.err = "EOF") <=> (frpos >= size)
    /\ rd'.err \in {"EOF", "none"}
    /\ frpos >= size => (rd'.n = 0 /\ frpos' = frpos)
    /\ frpos < size =>
         /\ rd'.n = Min(rd'.arg[1], size - frpos)
         /\ rd'.n >= 1
         /\ rd'.bytes = Slice(data, frpos, frpos + rd'.n)
         /\ frpos' = frpos + rd'.n

\* the Reads made from position 0 on have returned the image up to the
\* position, and all of it when Read has returned io.EOF
ReadInOrder ==
    (pc = "reader" /\ got.from = 0) =>
        /\ got.bytes = Slice(data, 0, frpos)
        /\ (rd.name = "Read" /\ rd.err = "EOF") => (Len(got.bytes) = size /\ got.bytes = data)

\* C22: for every buffer size >= 1, the Reads of a base reader positioned at 0
\* return the bytes of the base image in order, min(len(p), size - pos) of them
\* per call, each call advancing pos by what it returned (at least one byte,
\* so that the reading ends); Read returns (0, io.EOF) exactly when
\* pos >= size, and then exactly Size() bytes have been returned.
C22_ReadToEnd == [][ReadStep => (ReadRule /\ ReadInOrder')]_vars

\* C22 witness: the Reads from position 0 have returned the whole image and
\* a Read with a 3-byte buffer has then returned io.EOF
C22_Witness ==
    /\ pc = "reader"
    /\ got.from = 0
    /\ got.bytes = data
    /\ size = 40
    /\ rd.name = "Read"
    /\ rd.arg = <<3>>
    /\ rd.err = "EOF"

\* a step that is a call of Seek
SeekStep == pc = "reader" /\ rd'.name = "Seek"

\* the position Seek(off, whence) asks for
Target(off, whence) ==
    IF whence = SeekStart THEN off
    ELSE IF whence = SeekCurrent THEN frpos + off
    ELSE size + off

\* what Seek returns and where it leaves the position, for the calls in Which
SeekRule(Which(_, _)) ==
    (SeekStep /\ Which(rd'.arg[1], rd'.arg[2])) =>
        LET off == rd'.arg[1]
            whence == rd'.arg[2]
            t == Target(off, whence)
        IN  IF whence \in {SeekStart, SeekCurrent, SeekEnd} /\ t >= 0
            THEN /\ rd'.err = "none"
                 /\ frpos' = Min(t, size)
                 /\ rd'.n = frpos'
            ELSE /\ rd'.err # "none"
                 /\ frpos' = frpos

AnySeek(off, whence) == TRUE

\* the position asked for is an int64
InRange(off, whence) == Target(off, whence) <= MaxInt64

C23_SeekInRange ==
    [][(pc = "reader" => (0 <= frpos' /\ frpos' <= size)) /\ SeekRule(InRange)]_vars

----------------------------------------------------------------------------
(* JsonEDK2Manager (manager/json_edk2_manager.go): the variables of one MAC *)
(* address at a time, loaded from and saved to <dataDir>/<mac>/fw-vars.json *)

\* a nil net.HardwareAddr
NoMac == <<>>

\* a nil efi.EfiVarList
NilMap == [isnil |-> TRUE, m |-> EmptyVarList]

\* the addresses handed to LoadMAC, nil among them
JsonMacs == {<<216, 58, 221, 90, 68, 54>>, <<0, 26, 43, 60, 77, 94>>, NoMac}

\* strings.ReplaceAll(str, ":", "-")
ColonsToHyphens(str) == [i \in 1..Len(str) |-> IF str[i] = 58 THEN 45 ELSE str[i]]

\* macDirName
macDirName(mac) == ColonsToHyphens(MacString(mac))

\* a file that is missing ("missing"), is not JSON ("bad") or holds null ("null")
Doc(kind) == [kind |-> kind, members |-> EmptyVarList]

\* json.MarshalIndent(variables): an object keyed by variable name
Marshal(vs) == IF vs.isnil THEN Doc("null") ELSE [kind |-> "object", members |-> vs.m]

\* loadVariablesFromJSON: os.ReadFile and json.Unmarshal into a nil map
loadVariablesFromJSON(doc) ==
    IF doc.kind = "missing" THEN [err |-> "read", vars |-> NilMap]
    ELSE IF doc.kind = "bad" THEN [err |-> "parse", vars |-> NilMap]
    ELSE IF doc.kind = "null" THEN [err |-> "none", vars |-> NilMap]
    ELSE [err |-> "none", vars |-> Map(doc.members)]

\* the variables found in the files and handed to SetVariable
JsonValues == {OwnVar(nA, 7, NoTime, <<1>>), OwnVar(nB, 999, NoTime, <<2, 3>>)}

StoredList == nA :> OwnVar(nA, 7, NoTime, <<1>>)

\* NewJsonEDK2Manager on a data directory that exists
InitJson ==
    /\ img = IndexOf(ImgTiny)
    /\ data = ImageBytes(Images[img])
    /\ cap = Len(data)
    /\ offset = 0
    /\ steps = 0
    /\ start = 0
    /\ end = 0
    /\ perr = "unset"
    /\ varlist = EmptyVarList
    /\ file = data
    /\ res = "none"
    /\ nops = 0
    /\ pc = "json"
    /\ now = NoTime
    /\ op = NoOp
    /\ ret = NoValue
    /\ heap = <<>>
    /\ cached = FALSE
    /\ stores = 0
    /\ lock = NoLock
    /\ calls = <<>>
    /\ ReaderUnused
    /\ currentMAC = NoMac
    /\ variables = Map(EmptyVarList)
    /\ modified = FALSE
    /\ disk \in {d \in [{macDirName(m) : m \in JsonMacs}
                          -> {Doc("missing"), Doc("bad"), Doc("null"), Marshal(Map(StoredList))}] :
                   /\ d[macDirName(<<216, 58, 221, 90, 68, 54>>)].kind \in {"object", "null"}
                   /\ d[macDirName(<<0, 26, 43, 60, 77, 94>>)].kind \in {"missing", "bad", "object"}
                   /\ d[macDirName(NoMac)].kind \in {"missing", "object"}}
    /\ jret = NoJsonCall
    /\ ArchUnused

\* a call on the JSON manager
JsonCall(name, err, wrote, mac, key, value) ==
    /\ pc = "json"
    /\ nops < MaxOps
    /\ nops' = nops + 1
    /\ jret' = [name |-> name, err |-> err, wrote |-> wrote, mac |-> mac, key |-> key,
                value |-> value]
    /\ UNCHANGED <<img, data, cap, offset, steps, start, end, perr, varlist, file, res, pc,
                   efivars, simvars, rdvars, archvars>>

\* LoadMAC(mac), called under the name name
Load(name, mac) ==
    LET r == loadVariablesFromJSON(disk[macDirName(mac)]) IN
    /\ JsonCall(name, r.err, FALSE, mac, <<>>, <<>>)
    /\ IF r.err # "none"
       THEN UNCHANGED <<currentMAC, variables, modified, disk>>
       ELSE /\ currentMAC' = mac
            /\ variables' = r.vars
            /\ modified' = FALSE
            /\ UNCHANGED disk

\* JsonEDK2Manager.LoadMAC
LoadMAC(mac) == Load("LoadMAC", mac)

\* JsonEDK2Manager.SetVariable
JsonSetVariable(name, value) ==
    IF variables.isnil
    THEN /\ JsonCall("SetVariable", "novars", FALSE, <<>>, name, value)
         /\ UNCHANGED <<currentMAC, variables, modified, disk>>
    ELSE /\ JsonCall("SetVariable", "none", FALSE, <<>>, name, value)
         /\ variables' = Map(Put(variables.m, name, value))
         /\ modified' = TRUE
         /\ UNCHANGED <<currentMAC, disk>>

\* the flag is not looked at
AlwaysSave == FALSE

\* if !j.modified
NothingToSave == ~modified

\* JsonEDK2Manager.SaveChanges; saveVariablesToJSON succeeds ("ok") or fails,
\* the failed write leaving the file as it was ("kept") or damaged ("bad")
JsonSaveChanges(outcome) ==
    IF currentMAC = NoMac
    THEN /\ JsonCall("SaveChanges", "nomac", FALSE, <<>>, <<>>, <<>>)
         /\ UNCHANGED <<currentMAC, variables, modified, disk>>
    ELSE IF NothingToSave
    THEN /\ JsonCall("SaveChanges", "none", FALSE, <<>>, <<>>, <<>>)
         /\ UNCHANGED <<currentMAC, variables, modified, disk>>
    ELSE IF outcome = "ok"
    THEN /\ JsonCall("SaveChanges", "none", TRUE, <<>>, <<>>, <<>>)
         /\ disk' = [disk EXCEPT ![macDirName(currentMAC)] = Marshal(variables)]
         /\ modified' = FALSE
         /\ UNCHANGED <<currentMAC, variables>>
    ELSE /\ JsonCall("SaveChanges", "write", outcome = "bad", <<>>, <<>>, <<>>)
         /\ disk' = IF outcome = "bad" THEN [disk EXCEPT ![macDirName(currentMAC)] = Doc("bad")]
                    ELSE disk
         /\ UNCHANGED <<currentMAC, variables, modified>>

\* JsonEDK2Manager.RevertChanges
JsonRevertChanges ==
    IF currentMAC = NoMac
    THEN /\ JsonCall("RevertChanges", "nomac", FALSE, <<>>, <<>>, <<>>)
         /\ UNCHANGED <<currentMAC, variables, modified, disk>>
    ELSE Load("RevertChanges", currentMAC)

NextJson ==
    \/ \E mac \in JsonMacs : LoadMAC(mac)
    \/ \E name \in {nA, nB}, value \in JsonValues : JsonSetVariable(name, value)
    \/ \E outcome \in {"ok", "kept", "bad"} : JsonSaveChanges(outcome)
    \/ JsonRevertChanges

SpecJson == InitJson /\ [][NextJson]_vars

----------------------------------------------------------------------------
(* Properties of JsonEDK2Manager                                            *)

\* a step that is a call on the JSON manager
JsonStep == pc = "json" /\ nops' = nops + 1

Succeeded(names) == jret'.name \in names /\ jret'.err = "none"

\* the flag after a call: set by a SetVariable that succeeded, cleared by a
\* LoadMAC, RevertChanges or SaveChanges that succeeded, left alone otherwise
FlagRule ==
    modified' = IF Succeeded({"SetVariable"}) THEN TRUE
                ELSE IF Succeeded({"LoadMAC", "RevertChanges", "SaveChanges"}) THEN FALSE
                ELSE modified

\* SetVariable stores the variable under the given name
Stored ==
    Succeeded({"SetVariable"}) =>
        /\ ~variables'.isnil
        /\ jret'.key \in DOMAIN variables'.m
        /\ variables'.m[jret'.key] = jret'.value
        /\ \A k \in DOMAIN variables.m \ {jret'.key} :
             k \in DOMAIN variables'.m /\ variables'.m[k] = variables.m[k]

\* SaveChanges writes the file only when the flag is set, the file then holds
\* the variables, and a failed write leaves the flag set
SaveRule ==
    jret'.name = "SaveChanges" =>
        /\ jret'.wrote => modified
        /\ ~jret'.wrote => disk' = disk
        /\ (jret'.err = "none" /\ modified) =>
              (jret'.wrote /\ disk'[macDirName(currentMAC)] = Marshal(variables))
        /\ jret'.err = "write" => (modified /\ modified')

\* a call that fails changes neither currentMAC nor the variables nor the
\* flag, and SaveChanges and RevertChanges fail when no MAC is loaded
FailureRule ==
    /\ jret'.err # "none" => UNCHANGED <<currentMAC, variables, modified>>
    /\ (jret'.name \in {"SaveChanges", "RevertChanges"} /\ currentMAC = NoMac) => jret'.err = "nomac"

\* C24: in JsonEDK2Manager the modified flag is true exactly when SetVariable
\* has succeeded since the last successful LoadMAC, RevertChanges or
\* SaveChanges; SetVariable stores the variable under the given name;
\* SaveChanges writes the JSON file only when the flag is set and leaves it set
\* when the write fails; a failing LoadMAC, and SaveChanges or RevertChanges
\* with no MAC loaded, return an error and change neither currentMAC nor the
\* variables nor the flag.
C24_ModifiedFlag ==
    [][JsonStep => (FlagRule /\ Stored /\ SaveRule /\ FailureRule)]_vars

\* C24 witness: after a LoadMAC and a SetVariable the write of SaveChanges has
\* failed and the flag is still set
C24_Witness ==
    /\ pc = "json"
    /\ currentMAC # NoMac
    /\ modified
    /\ jret.name = "SaveChanges"
    /\ jret.err = "write"

----------------------------------------------------------------------------
(* The archive helpers: util.IsArchive and util.ExtractArchive, and          *)
(* types.FirmwareSource.IsArchive with types.IsArchiveExt.  File names and  *)
(* URLs are sequences of characters.                                        *)

\* ".zip", ".tar", ".tgz", ".tar.gz", ".gz"
extZip == <<46, 122, 105, 112>>
extTar == <<46, 116, 97, 114>>
extTgz == <<46, 116, 103, 122>>
extTarGz == <<46, 116, 97, 114, 46, 103, 122>>
extGz == <<46, 103, 122>>

\* the file names and URLs asked about: a stem, an ending and a query string
Stems == {<<>>, <<102, 105, 108, 101>>, <<104, 116, 116, 112, 58, 47, 47, 101, 120, 97, 109, 112, 108, 101, 46, 99, 111, 109, 47, 102, 105, 114, 109, 119, 97, 114, 101>>, <<118, 49, 46, 50, 47, 102, 119>>, <<102, 119, 46, 100, 47, 102, 105, 108, 101>>}

Endings == {<<>>, extZip, extTar, extTgz, extTarGz, extGz, <<46, 98, 105, 110>>, <<46, 90, 73, 80>>}

Queries == {<<>>, <<63, 118, 101, 114, 115, 105, 111, 110, 61, 49, 46, 48>>, <<63, 118, 61, 49>>}

FileNames == {stem \o ending \o query : stem \in Stems, ending \in Endings, query \in Queries}

\* path.Ext and filepath.Ext: the suffix that begins at the last dot of the
\* last slash-separated element, empty when it has no dot
RECURSIVE Ext(_)
Ext(name) ==
    IF name = <<>> THEN <<>>
    ELSE IF name[Len(name)] = 47 THEN <<>>
    ELSE IF name[Len(name)] = 46 THEN <<46>>
    ELSE LET e == Ext(SubSeq(name, 1, Len(name) - 1))
         IN  IF e = <<>> THEN <<>> ELSE e \o <<name[Len(name)]>>

\* types.IsArchiveExt
IsArchiveExt(ext) == ext \in {extZip, extTar, extTgz, extTarGz}

\* FirmwareSource.IsArchive
FirmwareSourceIsArchive(url) == IsArchiveExt(Ext(url))

\* util.IsArchive(filename, ext)
IsArchive(filename, ext) ==
    LET e == IF ext = <<>> THEN Ext(filename) ELSE ext
    IN  e \in {extZip, extTar, extTgz, extTarGz}

\* util.ExtractArchive: the extractor the archive is handed to, or the error
ExtractArchive(archivePath) ==
    IF ~IsArchive(archivePath, <<>>) THEN "notarchive"
    ELSE LET ext == Ext(archivePath)
         IN  IF ext = extZip THEN "extractZip"
             ELSE IF ext \in {extTar, extTgz, extGz} THEN "extractTarGz"
             ELSE "unsupported"

InitArchive ==
    /\ img = IndexOf(ImgTiny)
    /\ data = ImageBytes(Images[img])
    /\ cap = Len(data)
    /\ offset = 0
    /\ steps = 0
    /\ start = 0
    /\ end = 0
    /\ perr = "unset"
    /\ varlist = EmptyVarList
    /\ file = data
    /\ res = "none"
    /\ nops = 0
    /\ pc = "archive"
    /\ now = NoTime
    /\ op = NoOp
    /\ ret = NoValue
    /\ heap = <<>>
    /\ cached = FALSE
    /\ stores = 0
    /\ lock = NoLock
    /\ calls = <<>>
    /\ ReaderUnused
    /\ JsonUnused
    /\ arch \in {Unasked(name) : name \in FileNames}

ArchiveFrame ==
    UNCHANGED <<img, data, cap, offset, steps, start, end, perr, varlist, file, res, nops, pc,
                efivars, simvars, rdvars, jsonvars>>

YesNo(b) == IF b THEN "yes" ELSE "no"

\* a call of util.IsArchive(name, "")
AskUtil ==
    /\ pc = "archive"
    /\ arch.util = "unset"
    /\ arch' = [arch EXCEPT !.util = YesNo(IsArchive(arch.name, <<>>))]
    /\ ArchiveFrame

\* a call of (&FirmwareSource{URL: name}).IsArchive()
AskSource ==
    /\ pc = "archive"
    /\ arch.source = "unset"
    /\ arch' = [arch EXCEPT !.source = YesNo(FirmwareSourceIsArchive(arch.name))]
    /\ ArchiveFrame

\* a call of util.ExtractArchive(name, destDir)
AskExtract ==
    /\ pc = "archive"
    /\ arch.extract = "unset"
    /\ arch' = [arch EXCEPT !.extract = ExtractArchive(arch.name)]
    /\ ArchiveFrame

NextArchive == AskUtil \/ AskSource \/ AskExtract

SpecArchive == InitArchive /\ [][NextArchive]_vars

----------------------------------------------------------------------------
(* Properties of the archive helpers                                        *)

HasSuffix(name, suffix) ==
    Len(name) >= Len(suffix) /\ SubSeq(name, Len(name) - Len(suffix) + 1, Len(name)) = suffix

\* the name up to its query string
RECURSIVE PathOf(_)
PathOf(name) ==
    IF name = <<>> THEN <<>>
    ELSE IF name[1] = 63 THEN <<>>
    ELSE <<name[1]>> \o PathOf(Tail(name))

\* the path of the name ends in .zip, .tar, .tgz or .tar.gz
EndsAsArchive(name) ==
    \E e \in {extZip, extTar, extTgz, extTarGz} : HasSuffix(PathOf(name), e)

\* what the three functions say of the names in Which
ArchiveRule(Which(_)) ==
    (pc = "archive" /\ Which(arch.name)) =>
        /\ arch.util # "unset" => arch.util = YesNo(EndsAsArchive(arch.name))
        /\ arch.source # "unset" => arch.source = YesNo(EndsAsArchive(arch.name))
        /\ arch.extract # "unset" =>
             (arch.extract \in {"extractZip", "extractTarGz"} <=> EndsAsArchive(arch.name))

AnyName(name) == TRUE

\* a name without a query string that does not end in .tar.gz
PlainName(name) == PathOf(name) = name /\ ~HasSuffix(name, extTarGz)

\* C25: a file name or URL whose path ends in .zip, .tar, .tgz or .tar.gz is
\* recognized as an archive by util.IsArchive and FirmwareSource.IsArchive,
\* also with a query string after the extension, and ExtractArchive accepts
\* it; every other name is not an archive and ExtractArchive rejects it.
C25_ArchiveNames == ArchiveRule(AnyName)

\* C25 for the names without a query string that do not end in .tar.gz
C25_PlainNames == ArchiveRule(PlainName)

----------------------------------------------------------------------------
(* Properties of EDK2Manager.RevertChanges                                  *)

\* a step that is a call of RevertChanges that succeeded
Reverted == pc = "ready" /\ nops' = nops + 1 /\ op'.name = "RevertChanges" /\ res' = "reverted"

\* the variables the firmware file holds
ListOf(bytes) == GetVarList(bytes, Len(bytes), start, end).list

\* a SaveChanges has written a list with other names than the loaded ones
SavedChanges == DOMAIN ListOf(file) # DOMAIN ListOf(ImageBytes(Images[img]))

\* C26: RevertChanges reloads the variables from the firmware file: after a
\* SaveChanges that succeeded and further changes, it restores the list to
\* what the file now contains, not to what was loaded when the manager was
\* created.
C26_RevertToFile == [][(Reverted /\ SavedChanges) => varlist' = ListOf(file)]_vars

\* RevertChanges restores the list that was loaded when the manager was created
C26_RevertToLoaded == [][Reverted => varlist' = ListOf(ImageBytes(Images[img]))]_vars

\* C27: the loaded image buffer is never modified by operations on the
\* variable collection - in particular not by AppendBootOrder, which appends
\* to a data slice cut out of the buffer: the buffer stays byte-equal to the
\* image as loaded, so a later RevertChanges returns exactly the variables
\* that were originally parsed.
C27_BufferUntouched ==
    [][/\ data' = ImageBytes(Images[img])
       /\ Reverted => varlist' = ListOf(ImageBytes(Images[img]))]_vars

\* C27 for the calls other than AppendBootOrder: they leave the buffer alone
C27_OtherCalls == [][op'.name # "AppendBootOrder" => data' = data]_vars

----------------------------------------------------------------------------
(* Properties of the loaded collection                                      *)

\* the records of an image description whose state byte is 0x3f
LiveRecords(d) == {j \in 1..Len(d.recs) : d.recs[j].state = 63}

\* a manager has just been created from a well-formed image
JustLoaded == pc = "ready" /\ perr = "none" /\ Desc.wf /\ res = "loaded" /\ nops = 0

\* C28: no live record is lost by parsing: the collection GetVarList returns
\* has as many variables as the walk visited records of state 0x3f, also when
\* two live records carry the same name with different GUIDs.
C28_NoRecordLost ==
    JustLoaded => Cardinality(DOMAIN varlist) = Cardinality(LiveRecords(Desc))

\* C28 for the images whose live records carry different names
C28_DistinctNames ==
    (JustLoaded /\ \A i, j \in LiveRecords(Desc) : i # j => Desc.recs[i].name # Desc.recs[j].name)
        => Cardinality(DOMAIN varlist) = Cardinality(LiveRecords(Desc))

----------------------------------------------------------------------------
(* Boot entries through the manager (manager/edk2_manager.go)               *)

\* the stores a manager of boot entries is opened on
BootImages == {ImgEntries, ImgLastIndex, ImgNextOnly}

\* the value of a string of hex digits
RECURSIVE HexNum(_)
HexNum(s) ==
    IF s = <<>> THEN 0 ELSE 16 * HexNum(SubSeq(s, 1, Len(s) - 1)) + HexVal(s[Len(s)])

\* strconv.ParseUint(s, 16, 16): an error for the empty string, for a
\* character that is no hex digit and for a value beyond 16 bits
ParseUint16(s) ==
    IF s = <<>> \/ \E i \in 1..Len(s) : HexVal(s[i]) < 0 THEN [err |-> "syntax", val |-> 0]
    ELSE IF HexNum(s) > 65535 THEN [err |-> "range", val |-> 65535]
    ELSE [err |-> "none", val |-> HexNum(s)]

\* strings.TrimPrefix(s, prefix)
TrimPrefix(s, prefix) ==
    IF HasPrefix(s, prefix) THEN SubSeq(s, Len(prefix) + 1, Len(s)) ELSE s

\* strings.Contains(s, sub)
Contains(s, sub) ==
    \E i \in 0..(Len(s) - Len(sub)) : SubSeq(s, i + 1, i + Len(sub)) = sub

\* if !strings.HasPrefix(id, efi.BootPrefix) { id = efi.BootPrefix + id }
WithBootPrefix(id) == IF HasPrefix(id, nBoot) THEN id ELSE nBoot \o id

\* EDK2Manager.GetBootOrder on the list l: the indexes as %04X strings
GetBootOrderOf(l) ==
    IF BootOrder \in DOMAIN l
    THEN LET r == EfiVarGetBootOrder(l[BootOrder]).val
         IN  [i \in 1..Len(r) |-> Hex4(r[i])]
    ELSE <<>>

\* EDK2Manager.SetBootOrder on the list l
SetBootOrderOf(l, order, t) ==
    LET ids == [i \in 1..Len(order) |-> ParseUint16(TrimPrefix(order[i], nBoot))]
        c == IF BootOrder \in DOMAIN l THEN l ELSE Put(l, BootOrder, Literal(BootOrder, 7, <<>>))
    IN  IF \E i \in 1..Len(order) : ids[i].err # "none" THEN [err |-> "id", list |-> l]
        ELSE [err |-> "none",
              list |-> Put(c, BootOrder,
                           EfiVarSetBootOrder(c[BootOrder],
                                              [i \in 1..Len(order) |-> ids[i].val], t))]

\* the insertion of id at the 0-based position pos, at the end when pos is beyond it
InsertAt(order, pos, id) ==
    IF pos >= Len(order) THEN Append(order, id)
    ELSE SubSeq(order, 1, pos) \o <<id>> \o SubSeq(order, pos + 1, Len(order))

\* the increment without the width of the type
IncWide(n) == n + 1

\* maxID + 1 on a uint16
Inc16(n) == (n + 1) % 65536

\* the keys AddBootEntry looks at: HasPrefix(k, "Boot") && len(k) == 8
BootKeys(l) == {k \in DOMAIN l : HasPrefix(k, nBoot) /\ Len(k) = 8}

\* the ids ParseUint reads from those keys
BootIds(l) ==
    {ParseUint16(SubSeq(k, 5, 8)).val :
        k \in {b \in BootKeys(l) : ParseUint16(SubSeq(b, 5, 8)).err = "none"}}

\* maxID, which starts at 0
MaxID(l) == CHOOSE m \in BootIds(l) \cup {0} : \A i \in BootIds(l) : i <= m

\* nextID of AddBootEntry
NextID(l) == IF BootKeys(l) = {} THEN 0 ELSE Inc16(MaxID(l))

\* EDK2Manager.AddBootEntry on the list l
AddBootEntryOf(l, entry, t) ==
    LET name == BootName(NextID(l))
        attr == IF entry.Enabled THEN LOAD_OPTION_ACTIVE ELSE 0
        opt == HexDecode(entry.OptData)
        r == EfiVarSetBootEntry(Literal(name, 7, <<>>), attr, entry.Name, entry.DevPath,
                                opt.val, t)
        added == Put(l, name, r.v)
        o == SetBootOrderOf(added,
                            InsertAt(GetBootOrderOf(added), entry.Position, Hex4(NextID(l))), t)
    IN  IF opt.err # "none" THEN [err |-> "optdata", list |-> l]
        ELSE IF r.err # "none" THEN [err |-> r.err, list |-> l]
        ELSE IF entry.Position < 0 THEN [err |-> "none", list |-> added]
        ELSE o

\* the load option in the data of a Boot#### variable: attributes, length of
\* the path, title, path and optional data
ParseBootEntry(bytes) ==
    LET title == FromUCS16(bytes, 6)
        plen == Uint16(bytes, 4)
        p == 6 + NameSize(title)
    IN  [Attr |-> ToInt(Uint32(bytes, 0)), Title |-> title,
         Path |-> Slice(bytes, p, p + plen), OptData |-> Slice(bytes, p + plen, Len(bytes))]

\* order without its first id, if it is there
RECURSIVE RemoveFirst(_, _)
RemoveFirst(order, id) ==
    IF order = <<>> THEN <<>>
    ELSE IF order[1] = id THEN Tail(order)
    ELSE <<order[1]>> \o RemoveFirst(Tail(order), id)

\* EDK2Manager.UpdateBootEntry on the list l: the variable is changed in
\* place, so it stays changed when the boot order cannot be updated
UpdateBootEntryOf(l, id0, entry, t) ==
    LET id == WithBootPrefix(id0) IN
    IF id \notin DOMAIN l THEN [err |-> "notfound", list |-> l]
    ELSE LET cur == ParseBootEntry(l[id].Data)
             attr == IF entry.Enabled
                     THEN cur.Attr - (cur.Attr % 2) + LOAD_OPTION_ACTIVE
                     ELSE cur.Attr - (cur.Attr % 2)
             r == EfiVarSetBootEntry(l[id], attr, entry.Name, entry.DevPath, cur.OptData, t)
             set == Put(l, id, r.v)
             p == ParseUint16(TrimPrefix(id, nBoot))
             idStr == Hex4(p.val)
         IN  IF r.err # "none" THEN [err |-> r.err, list |-> l]
             ELSE IF entry.Position < 0 THEN [err |-> "none", list |-> set]
             ELSE IF p.err # "none" THEN [err |-> "id", list |-> set]
             ELSE SetBootOrderOf(set,
                                 InsertAt(RemoveFirst(GetBootOrderOf(set), idStr),
                                          entry.Position, idStr), t)

\* EDK2Manager.DeleteBootEntry on the list l
DeleteBootEntryOf(l, id0, t) ==
    LET id == WithBootPrefix(id0)
        idStr == TrimPrefix(id, nBoot)
        o == SetBootOrderOf(l, SelectSeq(GetBootOrderOf(l), LAMBDA x : x # idStr), t)
    IN  IF id \notin DOMAIN l THEN [err |-> "notfound", list |-> l]
        ELSE IF o.err # "none" THEN o
        ELSE [err |-> "none", list |-> Remove(o.list, id)]

\* the place of id in the boot order, 0 when it is not there
PositionOf(order, id) ==
    IF \E i \in 1..Len(order) : order[i] = id
    THEN (CHOOSE i \in 1..Len(order) : order[i] = id /\ \A j \in 1..(i - 1) : order[j] # id) - 1
    ELSE 0

\* the names ListBootEntries finds: Boot%04X of an index below 0xFFFF
ListedKeys(l) ==
    {k \in BootKeys(l) : LET p == ParseUint16(SubSeq(k, 5, 8))
                         IN  p.err = "none" /\ p.val < 65535 /\ BootName(p.val) = k}

\* EDK2Manager.GetBootEntries: one entry for every listed variable
GetBootEntriesOf(l) ==
    {[ID |-> SubSeq(k, 5, 8), Name |-> ParseBootEntry(l[k].Data).Title,
      Enabled |-> ParseBootEntry(l[k].Data).Attr % 2 = 1,
      Position |-> PositionOf(GetBootOrderOf(l), SubSeq(k, 5, 8))] : k \in ListedKeys(l)}

\* the entries in an order the map iteration may yield
IterationOrders(S) ==
    {es \in [1..Cardinality(S) -> S] :
        \A i, j \in 1..Cardinality(S) : i # j => es[i] # es[j]}

\* for _, entry := range pxeEntries { m.UpdateBootEntry(entry.ID, entry) }: the
\* text of the device path of an entry is read back as path
RECURSIVE UpdateAll(_, _, _, _, _)
UpdateAll(l, es, enable, path, t) ==
    IF es = <<>> THEN [err |-> "none", list |-> l]
    ELSE LET r == UpdateBootEntryOf(l, es[1].ID,
                                    [Name |-> es[1].Name, DevPath |-> path, Enabled |-> enable,
                                     Position |-> es[1].Position, OptData |-> <<>>], t)
         IN  IF r.err # "none" THEN r ELSE UpdateAll(r.list, Tail(es), enable, path, t)

\* "UEFI PXEv4 (MAC:000000000000)": GetMacAddress finds no title with "MAC:"
\* when no title contains "PXE", so the address is net.HardwareAddr{0, 0, 0, 0, 0, 0}
TitleNoMac == TitlePrefix \o Fill(12, 48) \o <<41>>

\* EDK2Manager.EnablePXEBoot on the list l, with the entries in the order es
EnablePXEBootOf(l, enable, es, path, t) ==
    LET u == UpdateAll(l, es, enable, path, t) IN
    IF u.err # "none" THEN u
    ELSE IF enable /\ es = <<>>
    THEN AddBootEntryOf(u.list, [Name |-> TitleNoMac, DevPath |-> path, Enabled |-> TRUE,
                                 Position |-> 0, OptData |-> <<>>], t)
    ELSE u

\* the entries whose title contains "PXE"
PxeEntries(l) == {e \in GetBootEntriesOf(l) : Contains(e.Name, TitleNet)}

\* the manager as NewEDK2Manager leaves it on a store of boot entries
InitBoot ==
    /\ img \in {IndexOf(d) : d \in BootImages}
    /\ data = ImageBytes(Images[img])
    /\ cap \in Len(data)..(Len(data) + MaxSlack)
    /\ offset = findNvData(data, 0, MaxSteps).off
    /\ steps = ScanCount(data, 0, MaxSteps)
    /\ perr = parseVolume(data, offset).err
    /\ start = parseVolume(data, offset).start
    /\ end = parseVolume(data, offset).end
    /\ varlist = GetVarList(data, cap, start, end).list
    /\ file = data
    /\ res = "loaded"
    /\ nops = 0
    /\ pc = "ready"
    /\ now = NoTime
    /\ op = NoOp
    /\ ret = NoValue
    /\ heap = <<>>
    /\ cached = FALSE
    /\ stores = 0
    /\ lock = NoLock
    /\ ReaderUnused
    /\ JsonUnused
    /\ ArchUnused
    /\ calls = <<>>

\* a types.BootEntry a caller hands over
GivenEntry(title, path, enabled, position, optdata) ==
    [Name |-> title, DevPath |-> path, Enabled |-> enabled, Position |-> position,
     OptData |-> optdata]

\* positions: none, the front, and the second place
Positions == {0 - 1, 0, 1}

GivenEntries ==
    {GivenEntry(title, path, TRUE, position, <<>>) :
        title \in {TitleDisk, TitleNet}, path \in {PathRaw, PathUnknown}, position \in Positions}
      \cup {GivenEntry(TitleDisk, PathRaw, FALSE, 0, <<>>),
            GivenEntry(TitleDisk, PathRaw, TRUE, 0, <<122>>)}

\* ids a caller names: "0000", "Boot0001", "FFFF" and "0007"
GivenIds == {Hex4(0), boot0001Name, Hex4(65535), Hex4(7)}

\* what reading back the text of a device path may give
ReadBack == {PathRaw, PathPxe, PathUnknown}

\* the outcome of a manager call on the list
Outcome(r) == IF r.err = "none" THEN Ok(<<>>) ELSE Err(r.err)

\* EDK2Manager.AddBootEntry
ManagerAddBootEntry(entry, t) ==
    LET r == AddBootEntryOf(varlist, entry, t) IN
    /\ Call("ManagerAddBootEntry", BootName(NextID(varlist)), <<entry.Position>>, r.list,
            Outcome(r), t)
    /\ UNCHANGED data

\* EDK2Manager.UpdateBootEntry
ManagerUpdateBootEntry(id, entry, t) ==
    LET r == UpdateBootEntryOf(varlist, id, entry, t) IN
    /\ Call("ManagerUpdateBootEntry", WithBootPrefix(id), <<entry.Position>>, r.list,
            Outcome(r), t)
    /\ UNCHANGED data

\* EDK2Manager.DeleteBootEntry
ManagerDeleteBootEntry(id, t) ==
    LET r == DeleteBootEntryOf(varlist, id, t) IN
    /\ Call("ManagerDeleteBootEntry", WithBootPrefix(id), <<>>, r.list, Outcome(r), t)
    /\ UNCHANGED data

\* EDK2Manager.EnablePXEBoot
EnablePXEBoot(enable, path, t) ==
    \E es \in IterationOrders(PxeEntries(varlist)) :
        LET r == EnablePXEBootOf(varlist, enable, es, path, t) IN
        /\ Call("EnablePXEBoot", <<>>, <<IF enable THEN 1 ELSE 0>>, r.list, Outcome(r), t)
        /\ UNCHANGED data

NextBoot ==
    \/ \E entry \in GivenEntries : ManagerAddBootEntry(entry, ClockEarly)
    \/ \E id \in GivenIds, entry \in GivenEntries : ManagerUpdateBootEntry(id, entry, ClockEarly)
    \/ \E id \in GivenIds : ManagerDeleteBootEntry(id, ClockEarly)
    \/ \E enable \in BOOLEAN, path \in ReadBack : EnablePXEBoot(enable, path, ClockEarly)

SpecBoot == InitBoot /\ [][NextBoot]_vars

\* the call that has just returned is one of names
BootStep(names) == op'.name \in names /\ nops' = nops + 1

\* C29: a successful EDK2Manager.AddBootEntry chose a name that was not in the
\* collection before the call, so it overwrote no variable
C29_NeverOverwrites ==
    [][(BootStep({"ManagerAddBootEntry"}) /\ ret'.err = "none")
          => BootName(NextID(varlist)) \notin DOMAIN varlist]_vars

\* the collection holds the last index, 0xFFFF
HasLastIndex(l) == 65535 \in BootIds(l)

\* without the index 0xFFFF in the collection the chosen name is new, also
\* when the only 8-character Boot name is BootNext
C29_FreshBelowLast ==
    [][(BootStep({"ManagerAddBootEntry"}) /\ ret'.err = "none" /\ ~HasLastIndex(varlist))
          => BootName(NextID(varlist)) \notin DOMAIN varlist]_vars

\* BootOrder has no index twice and every index names a Boot#### variable of l
OrderSound(l) ==
    BootOrder \in DOMAIN l =>
        LET o == EfiVarGetBootOrder(l[BootOrder]).val IN
        /\ \A i, j \in 1..Len(o) : i # j => o[i] # o[j]
        /\ \A i \in 1..Len(o) : BootName(o[i]) \in DOMAIN l

ManagerCalls ==
    {"ManagerAddBootEntry", "ManagerUpdateBootEntry", "ManagerDeleteBootEntry", "EnablePXEBoot"}

\* C30: AddBootEntry, UpdateBootEntry, DeleteBootEntry and EnablePXEBoot of the
\* manager take a collection whose BootOrder is duplicate-free and names only
\* existing Boot#### variables to a collection of which the same holds
C30_BootOrderKept ==
    [][(BootStep(ManagerCalls) /\ OrderSound(varlist)) => OrderSound(varlist')]_vars

\* the same for the collections without the index 0xFFFF
C30_KeptBelowLast ==
    [][(BootStep(ManagerCalls) /\ OrderSound(varlist) /\ ~HasLastIndex(varlist))
          => OrderSound(varlist')]_vars

====
